--------------------- MODULE ApprovalAttachmentsProofs ---------------------
(***************************************************************************)
(* Proofs about ApprovalAttachments: type correctness, that the lists      *)
(* update() replaces inside its transaction are exactly what its body says *)
(* when it commits and never mix two bodies before, however other requests *)
(* interleave, and that lists show files that exist and no file that       *)
(* leaves a list is forgotten.                                             *)
(***************************************************************************)
EXTENDS ApprovalAttachments, SequenceTheorems, TLAPS

Calling == {"find", "delete", "insert", "purge"}

(* A request in flight works on an approval; update() has a body; inside a
   call there is a call. *)
Flight(r) ==
    /\ r \in Request
    /\ r.pc # "idle" =>
           /\ r.id \in Approvals
           /\ r.phase # "remove" => r.body \in Body
           /\ r.pc \in Calling => r.calls # <<>>
           /\ r.pc = "commit" => r.phase = "inside"

Typed == TypeOK /\ \A p \in Requests : Flight(request[p])

-----------------------------------------------------------------------------
(* Types of the operators *)

(* No request is a proper one. *)
LEMMA IdleFlight == Flight(Idle)
BY DEF Flight, Idle, Request, PCs

(* Entering a call, or leaving the last one, a request stays a proper one. *)
LEMMA EnterFlight ==
    ASSUME NEW r \in Request, NEW calls \in Seq(Call), r.id \in Approvals,
           r.phase # "remove" => r.body \in Body
    PROVE  Flight(Enter(r, calls))
<1>1. CASE calls # <<>>
  BY <1>1 DEF Enter, Flight, Request, PCs, Calling
<1>2. CASE calls = <<>> /\ r.phase = "inside"
  BY <1>2 DEF Enter, Flight, Request, PCs, Calling
<1>3. CASE calls = <<>> /\ r.phase # "inside"
  BY <1>3, IdleFlight DEF Enter
<1> QED BY <1>1, <1>2, <1>3

(* So it does when it goes on to the next file to delete. *)
LEMMA PurgingFlight ==
    ASSUME NEW r \in Request, r.calls # <<>>, r.id \in Approvals,
           r.phase # "remove" => r.body \in Body
    PROVE  Flight(Purging(r))
<1>1. CASE r.drop # {}
  BY <1>1 DEF Purging, Flight, Request, PCs, Calling
<1>2. CASE r.drop = {}
  <2>1. Tail(r.calls) \in Seq(Call)
    BY HeadTailProperties DEF Request
  <2> QED BY <1>2, <2>1, EnterFlight DEF Purging
<1> QED BY <1>1, <1>2

(* The calls of update() and of remove() are calls. *)
LEMMA InsideCallsType ==
    ASSUME NEW body \in Body PROVE InsideCalls(body) \in Seq(Call)
BY DEF InsideCalls, Body, Call, Kinds

LEMMA RemoveCallsType == RemoveCalls \in Seq(Call)
BY DEF RemoveCalls, Call, Kinds

(* The calls for the lists of one kind are of that kind. *)
LEMMA CallsForType ==
    ASSUME NEW kind \in Kinds, NEW lists \in Seq(SUBSET Files)
    PROVE  /\ CallsFor(kind, lists) \in Seq(Call)
           /\ \A i \in DOMAIN CallsFor(kind, lists) :
                  CallsFor(kind, lists)[i].kind = kind
<1>1. PICK n \in Nat : lists \in [1..n -> SUBSET Files]
  BY SeqDef
<1>2. CallsFor(kind, lists) \in [1..n -> Call]
  BY <1>1 DEF CallsFor, Call
<1>3. CallsFor(kind, lists) \in Seq(Call)
  BY <1>2, SeqDef
<1>4. \A i \in DOMAIN CallsFor(kind, lists) :
          CallsFor(kind, lists)[i].kind = kind
  BY DEF CallsFor
<1> QED BY <1>3, <1>4

(* After the commit only other lists than those of the transaction change. *)
Outside(calls) ==
    calls \in Seq(Call) /\ \A i \in DOMAIN calls : calls[i].kind \notin InsideKinds

(* Calls of other lists, one after the other, are calls of other lists. *)
LEMMA OutsideConcat ==
    ASSUME NEW s, NEW t, Outside(s), Outside(t) PROVE Outside(s \o t)
<1>1. s \o t \in Seq(Call) /\ Len(s \o t) = Len(s) + Len(t)
  BY ConcatProperties DEF Outside
<1>2. ASSUME NEW i \in 1..Len(s \o t) PROVE (s \o t)[i].kind \notin InsideKinds
  <2>1. CASE i <= Len(s)
    <3>1. i \in DOMAIN s /\ (s \o t)[i] = s[i]
      BY <1>1, <2>1, ConcatProperties, LenProperties DEF Outside
    <3> QED BY <3>1 DEF Outside
  <2>2. CASE i > Len(s)
    <3>1. i - Len(s) \in DOMAIN t /\ (s \o t)[i] = t[i - Len(s)]
      BY <1>1, <2>2, ConcatProperties, LenProperties DEF Outside
    <3> QED BY <3>1 DEF Outside
  <2> QED BY <1>1, <2>1, <2>2, LenProperties DEF Outside
<1> QED BY <1>1, <1>2, LenProperties DEF Outside

(* No call after the commit is for a list of the transaction. *)
LEMMA AfterCallsOutside ==
    ASSUME NEW body \in Body PROVE Outside(AfterCalls(body))
<1>1. Outside(CallsFor("budgets", body.budgets))
  BY CallsForType DEF Outside, Body, Kinds, InsideKinds
<1>2. Outside(CallsFor("clothing", body.clothing))
  BY CallsForType DEF Outside, Body, Kinds, InsideKinds
<1>3. Outside(CallsFor("transport", body.transport))
  BY CallsForType DEF Outside, Body, Kinds, InsideKinds
<1>4. Outside(CallsFor("continuousSignature", <<body.signature>>))
  <2>1. <<body.signature>> \in Seq(SUBSET Files)
    BY DEF Body
  <2> QED BY <2>1, CallsForType DEF Outside, Kinds, InsideKinds
<1> QED BY <1>1, <1>2, <1>3, <1>4, OutsideConcat DEF AfterCalls

(* What deleting a file, and giving back and taking a row, leave of the types. *)
LEMMA DeleteFileType ==
    ASSUME TypeOK, NEW f \in Files, DeleteFile(f)
    PROVE  /\ file' \in [Files -> {"none", "stored", "deleted"}]
           /\ attached' \in [Approvals -> [Kinds -> SUBSET Files]]
BY DEF TypeOK, DeleteFile

LEMMA ReleaseRowsType ==
    ASSUME TypeOK, NEW p \in Requests, ReleaseRows(p)
    PROVE  rowLock' \in [Approvals -> Requests \cup {Nil}]
BY DEF TypeOK, ReleaseRows

LEMMA TakeRowType ==
    ASSUME TypeOK, NEW p \in Requests, NEW a \in Approvals, TakeRow(p, a)
    PROVE  rowLock' \in [Approvals -> Requests \cup {Nil}]
BY DEF TypeOK, TakeRow

(* A step that gives request p a proper record leaves the others proper. *)
LEMMA BecomeTyped ==
    ASSUME Typed, NEW p \in Requests, NEW r, Flight(r), Become(p, r)
    PROVE  /\ request' \in [Requests -> Request]
           /\ \A q \in Requests : Flight(request'[q])
           /\ request'[p] = r
           /\ \A q \in Requests \ {p} : request'[q] = request[q]
<1>1. r \in Request
  BY DEF Flight
<1>2. /\ request'[p] = r
      /\ \A q \in Requests \ {p} : request'[q] = request[q]
      /\ request' \in [Requests -> Request]
  BY <1>1 DEF Become, Typed, TypeOK
<1> QED BY <1>2 DEF Typed

-----------------------------------------------------------------------------
(* Type correctness: every action gives its request a proper record. *)

(* Nothing is in flight at first. *)
LEMMA InitTyped == Init => Typed
<1> SUFFICES ASSUME Init PROVE Typed
  OBVIOUS
<1>1. Idle \in Request
  BY IdleFlight DEF Flight
<1> QED BY <1>1, IdleFlight DEF Init, Typed, TypeOK

(* A request that arrives is a proper one. *)
LEMMA StartFlight ==
    ASSUME NEW a \in Approvals
    PROVE  /\ \A body \in Bodies : Flight(
                  [Idle EXCEPT !.pc = "found", !.id = a, !.body = body])
           /\ Flight([Idle EXCEPT !.pc = "found", !.phase = "remove", !.id = a])
<1>1. Idle \in Request /\ Idle.phase = "inside"
  BY DEF Idle, Request, PCs
<1>2. ASSUME NEW body \in Bodies
      PROVE  Flight([Idle EXCEPT !.pc = "found", !.id = a, !.body = body])
  <2>1. body \in Body
    BY AttachmentsAssumption
  <2> QED BY <1>1, <2>1 DEF Flight, Request, PCs, Calling
<1>3. Flight([Idle EXCEPT !.pc = "found", !.phase = "remove", !.id = a])
  BY <1>1 DEF Flight, Request, PCs, Calling
<1> QED BY <1>2, <1>3

(* Every step keeps the types, and every request a proper one. *)
LEMMA NextTyped ==
    ASSUME Typed, [Next]_vars
    PROVE  Typed'
<1>1. ASSUME NEW f \in Files, Upload(f) PROVE Typed'
  BY <1>1 DEF Upload, Typed, TypeOK
<1>2. ASSUME NEW f \in Files, RemoveFile(f) PROVE Typed'
  BY <1>2, DeleteFileType DEF RemoveFile, Typed, TypeOK
<1>3. ASSUME NEW p \in Requests, NEW a \in Approvals, NEW body \in Bodies,
             StartUpdate(p, a, body)
      PROVE  Typed'
  BY <1>3, StartFlight, BecomeTyped DEF StartUpdate, Typed, TypeOK
<1>4. ASSUME NEW p \in Requests, NEW a \in Approvals, StartRemove(p, a)
      PROVE  Typed'
  BY <1>4, StartFlight, BecomeTyped DEF StartRemove, Typed, TypeOK
<1>5. ASSUME NEW p \in Requests, Update(p) PROVE Typed'
  <2>1. Flight(Enter(request[p], InsideCalls(request[p].body)))
    BY <1>5, EnterFlight, InsideCallsType DEF Update, Typed, Flight
  <2>2. rowLock' \in [Approvals -> Requests \cup {Nil}]
    BY <1>5, TakeRowType DEF Update, Typed, Flight
  <2> QED BY <1>5, <2>1, <2>2, BecomeTyped DEF Update, Typed, TypeOK
<1>6. ASSUME NEW p \in Requests, Commit(p) PROVE Typed'
  <2> DEFINE r == [request[p] EXCEPT !.phase = "after"]
  <2>1. request[p] \in Request /\ Flight(request[p]) /\ request[p].pc = "commit"
    BY <1>6 DEF Commit, Typed, Flight
  <2>2. /\ r \in Request /\ r.id \in Approvals
        /\ request[p].body \in Body /\ r.body = request[p].body
    BY <2>1 DEF Flight, Request
  <2>3. AfterCalls(request[p].body) \in Seq(Call)
    BY <2>2, AfterCallsOutside DEF Outside
  <2>4. Flight(Enter(r, AfterCalls(request[p].body)))
    BY <2>2, <2>3, EnterFlight
  <2> QED BY <1>6, <2>4, ReleaseRowsType, BecomeTyped DEF Commit, Typed, TypeOK
<1>7. ASSUME NEW p \in Requests, SoftDelete(p) PROVE Typed'
  <2>1. Flight(Enter(request[p], RemoveCalls))
    BY <1>7, EnterFlight, RemoveCallsType DEF SoftDelete, Typed, Flight
  <2>2. deleted' \subseteq Approvals
    BY <1>7 DEF SoftDelete, Typed, TypeOK, Flight
  <2> QED BY <1>7, <2>1, <2>2, BecomeTyped DEF SoftDelete, Typed, TypeOK
<1>8. ASSUME NEW p \in Requests, request[p].pc \in Calling
      PROVE  /\ request[p] \in Request
             /\ request[p].id \in Approvals
             /\ request[p].phase # "remove" => request[p].body \in Body
             /\ request[p].calls \in Seq(Call)
             /\ request[p].calls # <<>>
             /\ Head(request[p].calls) \in Call
             /\ Tail(request[p].calls) \in Seq(Call)
  <2>1. Flight(request[p])
    BY DEF Typed
  <2>2. /\ request[p] \in Request
        /\ request[p].id \in Approvals
        /\ request[p].phase # "remove" => request[p].body \in Body
        /\ request[p].calls # <<>>
    BY <1>8, <2>1 DEF Flight, Calling
  <2>3. request[p].calls \in Seq(Call)
    BY <2>2 DEF Request
  <2> QED BY <2>2, <2>3, HeadTailProperties
<1>9. ASSUME NEW p \in Requests, SkipCall(p) PROVE Typed'
  <2>1. Flight(Enter(request[p], Tail(request[p].calls)))
    BY <1>8, <1>9, EnterFlight DEF SkipCall, Calling
  <2> QED BY <1>9, <2>1, BecomeTyped DEF SkipCall, Typed, TypeOK
<1>10. ASSUME NEW p \in Requests, FindByEntity(p) PROVE Typed'
  <2> DEFINE old == attached[request[p].id][Head(request[p].calls).kind]
             drop == Dropped(old, Head(request[p].calls).files)
             r == [request[p] EXCEPT !.pc = "delete", !.drop = drop]
  <2>1. drop \subseteq Files
    BY <1>8, <1>10 DEF FindByEntity, Calling, Dropped, Typed, TypeOK, Call
  <2> HIDE DEF drop
  <2>2. Flight(r)
    BY <1>8, <1>10, <2>1 DEF FindByEntity, Calling, Flight, Request, PCs
  <2>3. Become(p, r)
    BY <1>10 DEF FindByEntity, drop
  <2> QED BY <1>10, <2>2, <2>3, BecomeTyped DEF FindByEntity, Typed, TypeOK
<1>11. ASSUME NEW p \in Requests, DeleteByEntity(p) PROVE Typed'
  <2>1. Flight([request[p] EXCEPT !.pc = "insert"])
    BY <1>8, <1>11 DEF DeleteByEntity, Calling, Flight, Request, PCs
  <2>2. Flight(Purging(request[p]))
    BY <1>8, <1>11, PurgingFlight DEF DeleteByEntity, Calling
  <2>3. attached' \in [Approvals -> [Kinds -> SUBSET Files]]
    BY <1>11 DEF DeleteByEntity, Typed, TypeOK
  <2> QED BY <1>11, <2>1, <2>2, <2>3, BecomeTyped
          DEF DeleteByEntity, Typed, TypeOK
<1>12. ASSUME NEW p \in Requests, CreateMany(p) PROVE Typed'
  <2>1. Flight(Purging(request[p]))
    BY <1>8, <1>12, PurgingFlight DEF CreateMany, Calling
  <2>2. attached' \in [Approvals -> [Kinds -> SUBSET Files]]
    BY <1>8, <1>12 DEF CreateMany, Calling, Call, Typed, TypeOK
  <2> QED BY <1>12, <2>1, <2>2, BecomeTyped DEF CreateMany, Typed, TypeOK
<1>13. ASSUME NEW p \in Requests, CreateManyRefused(p) PROVE Typed'
  BY <1>13, IdleFlight, ReleaseRowsType, BecomeTyped
  DEF CreateManyRefused, Typed, TypeOK
<1>14. ASSUME NEW p \in Requests, request[p].pc = "purge", NEW f
       PROVE  Flight(Purging([request[p] EXCEPT !.drop = @ \ {f}]))
  <2> DEFINE r == [request[p] EXCEPT !.drop = @ \ {f}]
  <2>1. /\ r \in Request /\ r.calls = request[p].calls /\ r.id = request[p].id
        /\ r.phase = request[p].phase /\ r.body = request[p].body
    BY <1>8, <1>14 DEF Calling, Request
  <2> QED BY <1>8, <1>14, <2>1, PurgingFlight DEF Calling
<1>15. ASSUME NEW p \in Requests, NEW f \in Files, PurgeFile(p, f)
       PROVE  Typed'
  BY <1>14, <1>15, DeleteFileType, BecomeTyped DEF PurgeFile, Typed, TypeOK
<1>16. ASSUME NEW p \in Requests, NEW f \in Files, PurgeFails(p, f)
       PROVE  Typed'
  BY <1>14, <1>16, BecomeTyped DEF PurgeFails, Typed, TypeOK
<1>17. ASSUME NEW p \in Requests, Abort(p) PROVE Typed'
  BY <1>17, IdleFlight, ReleaseRowsType, BecomeTyped DEF Abort, Typed, TypeOK
<1>18. CASE UNCHANGED vars
  BY <1>18 DEF vars, Typed, TypeOK
<1> QED
  BY <1>1, <1>2, <1>3, <1>4, <1>5, <1>6, <1>7, <1>9, <1>10, <1>11, <1>12,
     <1>13, <1>15, <1>16, <1>17, <1>18 DEF Next, Arrive, Proceed

(* Type correctness of the attachments, for any files, approvals, bodies,
   requests and faults: the row of each table, lock and request is one it can
   hold. *)
THEOREM TypeCorrect == Spec => []TypeOK
<1>1. Typed /\ [Next]_vars => Typed'
  BY NextTyped
<1>2. Typed => TypeOK
  BY DEF Typed
<1> QED BY InitTyped, <1>1, <1>2, PTL DEF Spec

-----------------------------------------------------------------------------
(* The inductive invariant.  While update() holds its row it works through
   InsideCalls; the lists it has done show the files of the body, the list in
   hand is where the statement it waits for left it. *)

Listed(list, files, rows) ==
    /\ list = {f \in files : rows[f] = "stored"}
    /\ \A f \in files : rows[f] # "none"

Inside(r) == r.phase = "inside" /\ r.pc \notin {"idle", "found"}

(* The calls a request has still to make follow from its phase. *)
Ordered(r) ==
    /\ Inside(r) =>
           \/ r.pc = "commit" /\ r.calls = <<>>
           \/ r.pc \in Calling /\ r.calls = InsideCalls(r.body)
           \/ r.pc \in Calling /\ r.calls = <<InsideCalls(r.body)[2]>>
    /\ r.phase = "after" => Outside(r.calls)

DoneStands(r, lists, rows) ==
    /\ Len(r.calls) # 2 /\ r.body.document # {} =>
           Listed(lists["document"], r.body.document, rows)
    /\ Len(r.calls) = 0 /\ r.body.signature # {} =>
           Listed(lists["signature"], r.body.signature, rows)

InHandStands(r, lists, rows) ==
    LET call == Head(r.calls)
    IN  /\ r.pc \in {"delete", "insert", "purge"} =>
               call.files # {} /\ r.drop \cap call.files = {}
        /\ r.pc = "delete" => lists[call.kind] \ call.files \subseteq r.drop
        /\ r.pc = "insert" => lists[call.kind] = {}
        /\ r.pc = "purge" => Listed(lists[call.kind], call.files, rows)

Stands(r, lists, rows) ==
    DoneStands(r, lists, rows) /\ InHandStands(r, lists, rows)

Guarded(p) ==
    LET r == request[p]
    IN  /\ Ordered(r)
        /\ Inside(r) => rowLock[r.id] = p
        /\ r.phase = "remove" /\ r.pc \in Calling => r.id \in deleted
        /\ Inside(r) /\ r.id \notin deleted => Stands(r, attached[r.id], file)

Inv == Typed /\ \A p \in Requests : Guarded(p)

-----------------------------------------------------------------------------
(* What deletions of files and uploads leave standing. *)

(* Inside, the call in hand is the first or the second of InsideCalls. *)
LEMMA HeadInside ==
    ASSUME NEW r, Flight(r), Ordered(r), Inside(r), r.pc \in Calling
    PROVE  /\ r \in Request /\ r.body \in Body /\ r.id \in Approvals
           /\ r.calls \in Seq(Call) /\ r.calls # <<>>
           /\ \/ /\ Len(r.calls) = 2
                 /\ Head(r.calls) = InsideCalls(r.body)[1]
                 /\ Tail(r.calls) = <<InsideCalls(r.body)[2]>>
              \/ /\ Len(r.calls) = 1
                 /\ Head(r.calls) = InsideCalls(r.body)[2]
                 /\ Tail(r.calls) = <<>>
           /\ Head(r.calls).kind \in InsideKinds
           /\ Head(r.calls).files \subseteq Files
<1>1. /\ r \in Request /\ r.body \in Body /\ r.id \in Approvals
      /\ r.calls # <<>> /\ r.pc # "commit"
  BY DEF Flight, Inside, Calling
<1>2. InsideCalls(r.body) \in Seq(Call)
  BY <1>1, InsideCallsType
<1>3. CASE r.calls = InsideCalls(r.body)
  <2>1. /\ Len(r.calls) = 2
        /\ Head(r.calls) = InsideCalls(r.body)[1]
        /\ Tail(r.calls) = <<InsideCalls(r.body)[2]>>
    BY <1>3 DEF InsideCalls
  <2> QED BY <1>1, <1>2, <1>3, <2>1 DEF InsideCalls, Body, InsideKinds
<1>4. CASE r.calls = <<InsideCalls(r.body)[2]>>
  <2>1. /\ Len(r.calls) = 1
        /\ Head(r.calls) = InsideCalls(r.body)[2]
        /\ Tail(r.calls) = <<>>
        /\ r.calls \in Seq(Call)
    BY <1>1, <1>4 DEF InsideCalls, Body, Call, Kinds
  <2> QED BY <1>1, <2>1 DEF InsideCalls, Body, InsideKinds
<1> QED BY <1>1, <1>3, <1>4 DEF Ordered

(* An upload takes no file of a list away. *)
LEMMA ListedUpload ==
    ASSUME NEW list, NEW files \in SUBSET Files, NEW f \in Files,
           NEW rows \in [Files -> {"none", "stored", "deleted"}],
           rows[f] = "none", Listed(list, files, rows)
    PROVE  Listed(list, files, [rows EXCEPT ![f] = "stored"])
BY DEF Listed

(* What an upload or a deletion makes of rows and lists, in one relation. *)
Moved(lists, rows, lists2, rows2) ==
    \A k \in InsideKinds, files \in SUBSET Files :
        /\ Listed(lists[k], files, rows) => Listed(lists2[k], files, rows2)
        /\ lists2[k] \subseteq lists[k]

(* What stands keeps standing when rows and lists so move. *)
LEMMA StandsMoved ==
    ASSUME NEW r, Flight(r), Ordered(r), Inside(r),
           NEW lists, NEW rows, NEW lists2, NEW rows2,
           Moved(lists, rows, lists2, rows2), Stands(r, lists, rows)
    PROVE  Stands(r, lists2, rows2)
<1>1. r.body \in Body
  BY DEF Flight, Inside
<1>2. r.body.document \subseteq Files /\ r.body.signature \subseteq Files
  BY <1>1 DEF Body
<1>3. DoneStands(r, lists2, rows2)
  BY <1>2 DEF Stands, DoneStands, Moved, InsideKinds
<1>4. CASE r.pc \in Calling
  <2>1. Head(r.calls).kind \in InsideKinds /\ Head(r.calls).files \subseteq Files
    BY <1>4, HeadInside
  <2>2. InHandStands(r, lists2, rows2)
    BY <2>1 DEF Stands, InHandStands, Moved
  <2> QED BY <1>3, <2>2 DEF Stands
<1>5. CASE r.pc = "commit"
  BY <1>3, <1>5 DEF Stands, InHandStands
<1> QED BY <1>4, <1>5 DEF Ordered

(* A file that goes leaves the lists that showed it. *)
LEMMA DeleteMoves ==
    ASSUME Typed, NEW f \in Files, DeleteFile(f), NEW a \in Approvals
    PROVE  Moved(attached[a], file, attached'[a], file')
<1>1. file \in [Files -> {"none", "stored", "deleted"}]
  BY DEF Typed, TypeOK
<1>2. \A k \in InsideKinds : attached'[a][k] = attached[a][k] \ {f}
  BY DEF DeleteFile, InsideKinds, Kinds
<1>3. file' = [file EXCEPT ![f] = IF @ = "stored" THEN "deleted" ELSE @]
  BY DEF DeleteFile
<1>4. ASSUME NEW k \in InsideKinds, NEW files \in SUBSET Files,
             Listed(attached[a][k], files, file)
      PROVE  Listed(attached'[a][k], files, file')
  BY <1>1, <1>2, <1>3, <1>4 DEF Listed
<1> QED BY <1>2, <1>4 DEF Moved

(* A file that comes is in no list. *)
LEMMA UploadMoves ==
    ASSUME Typed, NEW f \in Files, Upload(f), NEW a \in Approvals
    PROVE  Moved(attached[a], file, attached'[a], file')
<1>1. file \in [Files -> {"none", "stored", "deleted"}]
  BY DEF Typed, TypeOK
<1>2. /\ attached' = attached /\ file[f] = "none"
      /\ file' = [file EXCEPT ![f] = "stored"]
  BY DEF Upload
<1> QED BY <1>1, <1>2, ListedUpload DEF Moved

(* So do lists that are left alone. *)
LEMMA SameMoves ==
    ASSUME NEW lists, NEW rows, NEW lists2, \A k \in InsideKinds : lists2[k] = lists[k]
    PROVE  Moved(lists, rows, lists2, rows)
BY DEF Moved

-----------------------------------------------------------------------------
(* How a request gets on: from one file to the next, from call to call. *)

(* When the call in hand is done, what it wrote stands with what was done before. *)
LEMMA EnterStands ==
    ASSUME NEW r, Flight(r), Ordered(r), Inside(r), r.pc \in Calling,
           NEW lists, NEW rows
    PROVE  LET s == Enter(r, Tail(r.calls))
           IN  /\ Ordered(s) /\ Inside(s) /\ s.id = r.id
               /\ /\ DoneStands(r, lists, rows)
                  /\ Head(r.calls).files # {} =>
                         Listed(lists[Head(r.calls).kind], Head(r.calls).files, rows)
                  => Stands(s, lists, rows)
<1> DEFINE s == Enter(r, Tail(r.calls))
<1>1. r \in Request /\ r.body \in Body /\ r.phase = "inside"
  BY HeadInside DEF Inside
<1>2. CASE /\ Len(r.calls) = 2
           /\ Head(r.calls) = InsideCalls(r.body)[1]
           /\ Tail(r.calls) = <<InsideCalls(r.body)[2]>>
  <2>1. /\ s.pc = "find" /\ s.calls = <<InsideCalls(r.body)[2]>>
        /\ s.phase = "inside" /\ s.body = r.body /\ s.id = r.id
    BY <1>1, <1>2 DEF Enter, Request
  <2>2. Ordered(s) /\ Inside(s)
    BY <2>1 DEF Ordered, Inside, Calling
  <2>3. Head(r.calls).kind = "document" /\ Head(r.calls).files = r.body.document
    BY <1>2 DEF InsideCalls
  <2>4. Len(s.calls) = 1
    BY <2>1
  <2>5. ASSUME DoneStands(r, lists, rows),
               Head(r.calls).files # {} =>
                   Listed(lists[Head(r.calls).kind], Head(r.calls).files, rows)
        PROVE  Stands(s, lists, rows)
    BY <2>1, <2>3, <2>4, <2>5 DEF Stands, DoneStands, InHandStands
  <2> QED BY <2>1, <2>2, <2>5
<1>3. CASE /\ Len(r.calls) = 1
           /\ Head(r.calls) = InsideCalls(r.body)[2]
           /\ Tail(r.calls) = <<>>
  <2>1. /\ s.pc = "commit" /\ s.calls = <<>>
        /\ s.phase = "inside" /\ s.body = r.body /\ s.id = r.id
    BY <1>1, <1>3 DEF Enter, Request
  <2>2. Ordered(s) /\ Inside(s)
    BY <2>1 DEF Ordered, Inside
  <2>3. Head(r.calls).kind = "signature" /\ Head(r.calls).files = r.body.signature
    BY <1>3 DEF InsideCalls
  <2>4. DoneStands(r, lists, rows) /\ r.body.document # {} =>
            Listed(lists["document"], r.body.document, rows)
    BY <1>3 DEF DoneStands
  <2>5. ASSUME DoneStands(r, lists, rows),
               Head(r.calls).files # {} =>
                   Listed(lists[Head(r.calls).kind], Head(r.calls).files, rows)
        PROVE  Stands(s, lists, rows)
    BY <2>1, <2>3, <2>4, <2>5 DEF Stands, DoneStands, InHandStands
  <2> QED BY <2>1, <2>2, <2>5
<1> QED BY <1>2, <1>3, HeadInside

(* So it does while the call deletes the files that fell out of use. *)
LEMMA PurgingStands ==
    ASSUME NEW r, Flight(r), Ordered(r), Inside(r), r.pc \in Calling,
           NEW lists, NEW rows
    PROVE  LET s == Purging(r)
           IN  /\ Ordered(s) /\ Inside(s) /\ s.id = r.id
               /\ /\ DoneStands(r, lists, rows)
                  /\ Head(r.calls).files # {}
                  /\ r.drop \cap Head(r.calls).files = {}
                  /\ Listed(lists[Head(r.calls).kind], Head(r.calls).files, rows)
                  => Stands(s, lists, rows)
<1> DEFINE s == Purging(r)
<1>1. r \in Request /\ r.body \in Body /\ r.phase = "inside"
  BY HeadInside DEF Inside
<1>2. CASE r.drop # {}
  <2>1. /\ s.pc = "purge" /\ s.calls = r.calls /\ s.drop = r.drop
        /\ s.phase = "inside" /\ s.body = r.body /\ s.id = r.id
    BY <1>1, <1>2 DEF Purging, Request
  <2>2. Ordered(s) /\ Inside(s)
    BY <2>1 DEF Ordered, Inside, Calling
  <2>3. DoneStands(r, lists, rows) => DoneStands(s, lists, rows)
    BY <2>1 DEF DoneStands
  <2>4. /\ Head(r.calls).files # {}
        /\ r.drop \cap Head(r.calls).files = {}
        /\ Listed(lists[Head(r.calls).kind], Head(r.calls).files, rows)
        => InHandStands(s, lists, rows)
    BY <2>1 DEF InHandStands
  <2> QED BY <2>1, <2>2, <2>3, <2>4 DEF Stands
<1>3. CASE r.drop = {}
  BY <1>3, EnterStands DEF Purging
<1> QED BY <1>2, <1>3

(* After the commit, and in remove(), a request keeps to its own lists. *)
Keeps(r, s) ==
    /\ Ordered(s) /\ ~ Inside(s)
    /\ s.phase = "remove" /\ s.pc \in Calling =>
           r.phase = "remove" /\ s.id = r.id

(* A request that ends keeps to its lists, and so does one that enters a call. *)
LEMMA IdleKeeps == ASSUME NEW r PROVE Keeps(r, Idle)
BY DEF Keeps, Idle, Ordered, Inside, Calling

LEMMA EnterKeeps ==
    ASSUME NEW r \in Request, r.phase # "inside", NEW calls \in Seq(Call),
           r.phase = "after" => Outside(calls)
    PROVE  Keeps(r, Enter(r, calls))
<1>1. CASE calls # <<>>
  <2> DEFINE s == Enter(r, calls)
  <2>1. s.pc = "find" /\ s.calls = calls /\ s.phase = r.phase /\ s.id = r.id
    BY <1>1 DEF Enter, Request
  <2> QED BY <2>1 DEF Keeps, Ordered, Inside
<1>2. CASE calls = <<>>
  BY <1>2, IdleKeeps DEF Enter
<1> QED BY <1>1, <1>2

(* What is left of calls of other lists is calls of other lists. *)
LEMMA OutsideTail ==
    ASSUME NEW calls, Outside(calls), calls # <<>>
    PROVE  Outside(Tail(calls)) /\ Head(calls).kind \notin InsideKinds
<1>1. calls \in Seq(Call) /\ Len(calls) \in Nat /\ Len(calls) # 0
  BY EmptySeq, LenProperties DEF Outside
<1>2. /\ Tail(calls) \in Seq(Call) /\ Len(Tail(calls)) = Len(calls) - 1
      /\ \A i \in 1..Len(Tail(calls)) : Tail(calls)[i] = calls[i+1]
      /\ Head(calls) = calls[1]
  BY <1>1, HeadTailProperties
<1>3. DOMAIN calls = 1..Len(calls) /\ DOMAIN Tail(calls) = 1..Len(Tail(calls))
  BY <1>1, <1>2, LenProperties
<1>4. \A i \in 1..Len(Tail(calls)) : i + 1 \in 1..Len(calls)
  BY <1>1, <1>2
<1> QED BY <1>1, <1>2, <1>3, <1>4 DEF Outside

(* A request that goes on to the next file keeps to its lists. *)
LEMMA PurgingKeeps ==
    ASSUME NEW r \in Request, r.phase # "inside", r.calls # <<>>, Ordered(r)
    PROVE  Keeps(r, Purging(r))
<1>1. CASE r.drop # {}
  <2> DEFINE s == Purging(r)
  <2>1. s.pc = "purge" /\ s.calls = r.calls /\ s.phase = r.phase /\ s.id = r.id
    BY <1>1 DEF Purging, Request
  <2> QED BY <2>1 DEF Keeps, Ordered, Inside
<1>2. CASE r.drop = {}
  <2>1. Tail(r.calls) \in Seq(Call)
    BY HeadTailProperties DEF Request
  <2> QED BY <1>2, <2>1, EnterKeeps, OutsideTail DEF Purging, Ordered
<1> QED BY <1>1, <1>2

-----------------------------------------------------------------------------
(* The invariant, action by action: what the step does to the requests that
   do not take it, and to the one that does. *)

(* A request that takes no step stays guarded: its lock is kept and its lists move
   as deletions and uploads move them. *)
LEMMA OthersGuarded ==
    ASSUME Inv, NEW q \in Requests, request'[q] = request[q],
           \A a \in Approvals : rowLock[a] = q => rowLock'[a] = q,
           deleted \subseteq deleted',
           \A a \in Approvals :
               Inside(request[q]) /\ request[q].id = a /\ a \notin deleted =>
                   Moved(attached[a], file, attached'[a], file')
    PROVE  Guarded(q)'
<1>1. Guarded(q) /\ Flight(request[q])
  BY DEF Inv, Typed
<1>2. Inside(request[q]) => request[q].id \in Approvals
  BY <1>1 DEF Inside, Flight
<1>3. Inside(request[q]) => rowLock'[request[q].id] = q
  BY <1>1, <1>2 DEF Guarded
<1>4. ASSUME Inside(request[q]), request[q].id \notin deleted'
      PROVE  Stands(request[q], attached'[request[q].id], file')
  <2>1. Stands(request[q], attached[request[q].id], file)
    BY <1>1, <1>4 DEF Guarded
  <2>2. Moved(attached[request[q].id], file, attached'[request[q].id], file')
    BY <1>2, <1>4
  <2> QED BY <1>1, <1>4, <2>1, <2>2, StandsMoved DEF Guarded
<1> QED BY <1>1, <1>3, <1>4 DEF Guarded

(* A request that keeps to its own lists needs no lock and no list. *)
LEMMA KeepsGuarded ==
    ASSUME NEW p \in Requests, Keeps(request[p], request'[p]),
           request[p].phase = "remove" /\ request'[p].pc \in Calling =>
               request[p].id \in deleted'
    PROVE  Guarded(p)'
BY DEF Guarded, Keeps

(* Nothing is inside at first. *)
LEMMA InitInv == Init => Inv
<1> SUFFICES ASSUME Init PROVE Inv
  OBVIOUS
<1>1. \A p \in Requests : request[p] = Idle
  BY DEF Init
<1>2. Ordered(Idle) /\ ~ Inside(Idle) /\ Idle.phase # "remove"
  BY DEF Idle, Ordered, Inside
<1> QED BY <1>1, <1>2, InitTyped DEF Inv, Guarded

(* Uploads and deletions of files. *)
LEMMA FilesInv ==
    ASSUME Inv, Typed', NEW f \in Files, Upload(f) \/ RemoveFile(f)
    PROVE  Inv'
<1>1. \A a \in Approvals : Moved(attached[a], file, attached'[a], file')
  BY UploadMoves, DeleteMoves DEF Inv, RemoveFile
<1>2. request' = request /\ rowLock' = rowLock /\ deleted' = deleted
  BY DEF Upload, RemoveFile
<1> QED BY <1>1, <1>2, OthersGuarded DEF Inv

(* Become changes one request. *)
LEMMA BecomeOthers ==
    ASSUME Inv, NEW p \in Requests, NEW r, Become(p, r)
    PROVE  /\ request'[p] = r
           /\ \A q \in Requests \ {p} : request'[q] = request[q]
BY DEF Become, Inv, Typed, TypeOK

(* Two updates of one approval are not inside together. *)
LEMMA Exclusive ==
    ASSUME Inv, NEW p \in Requests, NEW q \in Requests \ {p},
           Inside(request[p]), Inside(request[q])
    PROVE  request[p].id # request[q].id
BY DEF Inv, Guarded

(* A request that arrives has done nothing yet. *)
LEMMA FoundInv ==
    ASSUME Inv, Typed', NEW p \in Requests, NEW r, Become(p, r),
           r.pc = "found", r.phase # "after",
           UNCHANGED <<file, attached, deleted, rowLock>>
    PROVE  Inv'
<1>1. Guarded(p)'
  BY BecomeOthers DEF Guarded, Ordered, Inside, Calling
<1>2. \A q \in Requests \ {p} : Guarded(q)'
  BY BecomeOthers, OthersGuarded, SameMoves
<1> QED BY <1>1, <1>2 DEF Inv

LEMMA StartInv ==
    ASSUME Inv, Typed', NEW p \in Requests, NEW a \in Approvals,
           StartRemove(p, a) \/ \E body \in Bodies : StartUpdate(p, a, body)
    PROVE  Inv'
<1>1. CASE StartRemove(p, a)
  <2> DEFINE r == [Idle EXCEPT !.pc = "found", !.phase = "remove", !.id = a]
  <2>1. r.pc = "found" /\ r.phase # "after"
    BY DEF Idle
  <2>2. Become(p, r) /\ UNCHANGED <<file, attached, deleted, rowLock>>
    BY <1>1 DEF StartRemove
  <2> HIDE DEF r
  <2> QED BY <2>1, <2>2, FoundInv
<1>2. ASSUME NEW body \in Bodies, StartUpdate(p, a, body) PROVE Inv'
  <2> DEFINE r == [Idle EXCEPT !.pc = "found", !.id = a, !.body = body]
  <2>1. r.pc = "found" /\ r.phase # "after"
    BY DEF Idle
  <2>2. Become(p, r) /\ UNCHANGED <<file, attached, deleted, rowLock>>
    BY <1>2 DEF StartUpdate
  <2> HIDE DEF r
  <2> QED BY <2>1, <2>2, FoundInv
<1> QED BY <1>1, <1>2

(* UPDATE approval: the row was free, so no other update is inside. *)
LEMMA UpdateInv ==
    ASSUME Inv, Typed', NEW p \in Requests, Update(p)
    PROVE  Inv'
<1> DEFINE r == request[p]
           s == Enter(r, InsideCalls(r.body))
<1>1. r \in Request /\ r.phase = "inside" /\ r.id \in Approvals /\ r.body \in Body
  BY DEF Update, Inv, Typed, Flight
<1>2. /\ s.pc = "find" /\ s.phase = "inside" /\ s.id = r.id
      /\ s.calls = InsideCalls(r.body) /\ s.body = r.body
  BY <1>1 DEF Enter, InsideCalls, Request
<1>3. Len(s.calls) = 2
  BY <1>2 DEF InsideCalls
<1>4. Stands(s, attached'[s.id], file')
  BY <1>2, <1>3 DEF Stands, DoneStands, InHandStands
<1>5. request'[p] = s /\ \A q \in Requests \ {p} : request'[q] = request[q]
  BY BecomeOthers DEF Update
<1>6. rowLock'[r.id] = p
  BY <1>1 DEF Update, TakeRow, Inv, Typed, TypeOK
<1>7. Guarded(p)'
  <2>1. Ordered(s)
    BY <1>2 DEF Ordered, Calling
  <2> QED BY <1>2, <1>4, <1>5, <1>6, <2>1 DEF Guarded
<1>8. \A q \in Requests, a \in Approvals : rowLock[a] = q => rowLock'[a] = q
  BY <1>1, AttachmentsAssumption
  DEF Update, TakeRow, RowFree, Inv, Typed, TypeOK
<1>9. \A q \in Requests \ {p} : Guarded(q)'
  BY <1>5, <1>8, OthersGuarded, SameMoves DEF Update
<1> QED BY <1>7, <1>9 DEF Inv

(* Releasing its own rows, request p takes none from another. *)
LEMMA ReleaseOthers ==
    ASSUME NEW p \in Requests, ReleaseRows(p)
    PROVE  \A q \in Requests \ {p}, a \in Approvals :
               rowLock[a] = q => rowLock'[a] = q
BY DEF ReleaseRows

(* From the commit on a request keeps to other lists. *)
LEMMA CommitInv ==
    ASSUME Inv, Typed', NEW p \in Requests, Commit(p)
    PROVE  Inv'
<1> DEFINE r == [request[p] EXCEPT !.phase = "after"]
           s == Enter(r, AfterCalls(request[p].body))
<1>1. request[p] \in Request /\ request[p].body \in Body
  BY DEF Commit, Inv, Typed, Flight
<1>2. r \in Request /\ r.phase = "after"
  BY <1>1 DEF Request
<1>3. Keeps(r, s)
  BY <1>1, <1>2, AfterCallsOutside, EnterKeeps DEF Outside
<1>4. request'[p] = s /\ \A q \in Requests \ {p} : request'[q] = request[q]
  BY BecomeOthers DEF Commit
<1>5. Guarded(p)'
  BY <1>2, <1>3, <1>4 DEF Keeps, Guarded
<1>6. \A q \in Requests \ {p} : Guarded(q)'
  BY <1>4, ReleaseOthers, OthersGuarded, SameMoves DEF Commit
<1> QED BY <1>5, <1>6 DEF Inv

(* From the soft delete on the approval is deleted. *)
LEMMA SoftDeleteInv ==
    ASSUME Inv, Typed', NEW p \in Requests, SoftDelete(p)
    PROVE  Inv'
<1> DEFINE r == request[p]
           s == Enter(r, RemoveCalls)
<1>1. r \in Request /\ r.phase = "remove"
  BY DEF SoftDelete, Inv, Typed, Flight
<1>2. Keeps(r, s)
  BY <1>1, RemoveCallsType, EnterKeeps
<1>3. request'[p] = s /\ \A q \in Requests \ {p} : request'[q] = request[q]
  BY BecomeOthers DEF SoftDelete
<1>4. Guarded(p)'
  BY <1>2, <1>3, KeepsGuarded DEF SoftDelete
<1>5. \A q \in Requests \ {p} : Guarded(q)'
  BY <1>3, OthersGuarded, SameMoves DEF SoftDelete
<1> QED BY <1>4, <1>5 DEF Inv

(* A request that ends, by itself or not, leaves nothing to guard. *)
LEMMA EndInv ==
    ASSUME Inv, Typed', NEW p \in Requests, CreateManyRefused(p) \/ Abort(p)
    PROVE  Inv'
<1>1. Become(p, Idle) /\ ReleaseRows(p) /\ UNCHANGED <<file, attached, deleted>>
  BY DEF CreateManyRefused, Abort
<1>2. request'[p] = Idle /\ \A q \in Requests \ {p} : request'[q] = request[q]
  BY <1>1, BecomeOthers
<1>3. Guarded(p)'
  <2>1. Idle.pc \notin Calling
    BY DEF Idle, Calling
  <2> QED BY <1>2, <2>1, IdleKeeps, KeepsGuarded
<1>4. \A q \in Requests \ {p} : Guarded(q)'
  BY <1>1, <1>2, ReleaseOthers, OthersGuarded, SameMoves
<1> QED BY <1>3, <1>4 DEF Inv

-----------------------------------------------------------------------------
(* The statements of a call. *)

(* What is known of a request inside a call. *)
LEMMA InCall ==
    ASSUME Inv, NEW p \in Requests, request[p].pc \in Calling
    PROVE  LET r == request[p]
           IN  /\ r \in Request /\ Flight(r) /\ Ordered(r) /\ Guarded(p)
               /\ r.id \in Approvals /\ r.calls \in Seq(Call) /\ r.calls # <<>>
               /\ Head(r.calls) \in Call /\ Tail(r.calls) \in Seq(Call)
               /\ Inside(r) <=> r.phase = "inside"
               /\ r.phase \in {"inside", "after", "remove"}
<1> DEFINE r == request[p]
<1>1. Flight(r) /\ Guarded(p)
  BY DEF Inv, Typed
<1>2. r \in Request /\ r.id \in Approvals /\ r.calls # <<>>
  BY <1>1 DEF Flight, Calling
<1>3. r.calls \in Seq(Call) /\ r.phase \in {"inside", "after", "remove"}
  BY <1>2 DEF Request
<1>4. Inside(r) <=> r.phase = "inside"
  BY DEF Inside, Calling
<1> QED BY <1>1, <1>2, <1>3, <1>4, HeadTailProperties DEF Guarded

(* A statement of request p that takes no lock and deletes no approval. *)
LEMMA CallStep ==
    ASSUME Inv, Typed', NEW p \in Requests, request[p].pc \in Calling,
           NEW s, Become(p, s), UNCHANGED <<rowLock, deleted>>,
           Inside(request[p]) =>
               /\ Ordered(s) /\ Inside(s) /\ s.id = request[p].id
               /\ request[p].id \notin deleted => Stands(s, attached'[s.id], file'),
           ~ Inside(request[p]) => Keeps(request[p], s),
           \A q \in Requests \ {p}, a \in Approvals :
               Inside(request[q]) /\ request[q].id = a /\ a \notin deleted =>
                   Moved(attached[a], file, attached'[a], file')
    PROVE  Inv'
<1>1. request'[p] = s /\ \A q \in Requests \ {p} : request'[q] = request[q]
  BY BecomeOthers
<1>2. Guarded(p)
  BY DEF Inv
<1>3. CASE Inside(request[p])
  <2>1. rowLock'[s.id] = p
    BY <1>2, <1>3 DEF Guarded
  <2>2. s.phase # "remove"
    BY <1>3 DEF Inside
  <2>3. Guarded(p)'
    BY <1>1, <1>3, <2>1, <2>2 DEF Guarded
  <2> QED BY <1>1, <2>3, OthersGuarded DEF Inv
<1>4. CASE ~ Inside(request[p])
  <2>1. Guarded(p)'
    BY <1>1, <1>2, <1>4, KeepsGuarded DEF Guarded
  <2> QED BY <1>1, <2>1, OthersGuarded DEF Inv
<1> QED BY <1>3, <1>4

(* A call that is not made; one that reads the old list. *)
LEMMA SkipCallInv ==
    ASSUME Inv, Typed', NEW p \in Requests, SkipCall(p)
    PROVE  Inv'
<1> DEFINE r == request[p]
           s == Enter(r, Tail(r.calls))
<1>1. r.pc \in Calling
  BY DEF SkipCall, Calling
<1>2. Become(p, s) /\ UNCHANGED <<file, attached, deleted, rowLock>>
  BY DEF SkipCall
<1>3. ASSUME Inside(r)
      PROVE  /\ Ordered(s) /\ Inside(s) /\ s.id = r.id
             /\ r.id \notin deleted => Stands(s, attached'[s.id], file')
  <2>1. r.id \notin deleted => DoneStands(r, attached[r.id], file)
    BY <1>1, <1>3, InCall DEF Guarded, Stands
  <2>2. Head(r.calls).files = {}
    BY DEF SkipCall, HasFiles
  <2> QED BY <1>1, <1>2, <1>3, <2>1, <2>2, InCall, EnterStands
<1>4. ASSUME ~ Inside(r) PROVE Keeps(r, s)
  <2>1. r.phase = "after" => Outside(Tail(r.calls))
    BY <1>1, InCall, OutsideTail DEF Ordered
  <2> QED BY <1>1, <1>4, <2>1, InCall, EnterKeeps
<1> HIDE DEF s
<1> QED BY <1>1, <1>2, <1>3, <1>4, CallStep, SameMoves

LEMMA FindByEntityInv ==
    ASSUME Inv, Typed', NEW p \in Requests, FindByEntity(p)
    PROVE  Inv'
<1> DEFINE r == request[p]
           call == Head(r.calls)
           drop == Dropped(attached[r.id][call.kind], call.files)
           s == [r EXCEPT !.pc = "delete", !.drop = drop]
<1>1. r.pc \in Calling
  BY DEF FindByEntity, Calling
<1>2. Become(p, s) /\ UNCHANGED <<file, attached, deleted, rowLock>>
  BY DEF FindByEntity
<1>3. /\ s.pc = "delete" /\ s.phase = r.phase /\ s.id = r.id
      /\ s.body = r.body /\ s.calls = r.calls /\ s.drop = drop
  BY <1>1, InCall DEF Request
<1>4. Ordered(s)
  BY <1>1, <1>3, InCall DEF Ordered, Inside, Calling
<1>5. ASSUME Inside(r)
      PROVE  Inside(s) /\ (r.id \notin deleted => Stands(s, attached'[s.id], file'))
  <2>1. r.id \notin deleted => DoneStands(r, attached[r.id], file)
    BY <1>1, <1>5, InCall DEF Guarded, Stands
  <2>2. r.id \notin deleted => DoneStands(s, attached[r.id], file)
    BY <1>3, <2>1 DEF DoneStands
  <2>3. call.files # {}
    BY <1>5 DEF FindByEntity, HasFiles, Inside
  <2>4. /\ drop \cap call.files = {}
        /\ attached[r.id][call.kind] \ call.files \subseteq drop
    BY DEF Dropped
  <2>5. InHandStands(s, attached[r.id], file)
    BY <1>3, <2>3, <2>4 DEF InHandStands
  <2> QED BY <1>2, <1>3, <1>5, <2>2, <2>5 DEF Stands, Inside
<1>6. ASSUME ~ Inside(r) PROVE Keeps(r, s)
  BY <1>1, <1>3, <1>4, <1>6, InCall DEF Keeps, Inside
<1> HIDE DEF s
<1> QED BY <1>1, <1>2, <1>3, <1>4, <1>5, <1>6, CallStep, SameMoves

(* A call writes its own list: no list of an update that is inside, unless it
   is the call of this update. *)
LEMMA OneList ==
    ASSUME Inv, NEW p \in Requests, request[p].pc \in Calling, NEW list,
           attached' = [attached EXCEPT
               ![request[p].id][Head(request[p].calls).kind] = list]
    PROVE  /\ attached'[request[p].id][Head(request[p].calls).kind] = list
           /\ \A k \in Kinds \ {Head(request[p].calls).kind} :
                  attached'[request[p].id][k] = attached[request[p].id][k]
           /\ \A a \in Approvals \ {request[p].id} : attached'[a] = attached[a]
<1>1. attached \in [Approvals -> [Kinds -> SUBSET Files]]
  BY DEF Inv, Typed, TypeOK
<1>2. request[p].id \in Approvals /\ Head(request[p].calls) \in Call
  BY InCall
<1> QED BY <1>1, <1>2 DEF Call

(* The list a call writes is in nobody else's transaction. *)
LEMMA ListMoves ==
    ASSUME Inv, NEW p \in Requests, request[p].pc \in Calling, NEW list,
           attached' = [attached EXCEPT
               ![request[p].id][Head(request[p].calls).kind] = list],
           file' = file, NEW q \in Requests \ {p}, NEW a \in Approvals,
           Inside(request[q]), request[q].id = a, a \notin deleted
    PROVE  Moved(attached[a], file, attached'[a], file')
<1>1. CASE a # request[p].id
  BY <1>1, OneList, SameMoves
<1>2. CASE a = request[p].id
  <2>1. ~ Inside(request[p])
    BY <1>2, Exclusive
  <2>2. request[p].phase # "remove"
    BY <1>2, InCall DEF Guarded
  <2>3. request[p].phase = "after"
    BY <2>1, <2>2, InCall
  <2>4. Head(request[p].calls).kind \notin InsideKinds
    BY <2>3, InCall, OutsideTail DEF Ordered
  <2>5. \A k \in InsideKinds : attached'[a][k] = attached[a][k]
    BY <1>2, <2>4, OneList DEF InsideKinds, Kinds
  <2> QED BY <2>5, SameMoves
<1> QED BY <1>1, <1>2

(* The list in hand is none of the lists done. *)
LEMMA DoneKept ==
    ASSUME NEW r, Flight(r), Ordered(r), Inside(r), r.pc \in Calling,
           NEW lists, NEW lists2, NEW rows, DoneStands(r, lists, rows),
           \A k \in InsideKinds \ {Head(r.calls).kind} : lists2[k] = lists[k]
    PROVE  DoneStands(r, lists2, rows)
<1>1. CASE Len(r.calls) = 2
  BY <1>1 DEF DoneStands
<1>2. CASE Len(r.calls) = 1 /\ Head(r.calls) = InsideCalls(r.body)[2]
  <2>1. Head(r.calls).kind = "signature"
    BY <1>2 DEF InsideCalls
  <2>2. lists2["document"] = lists["document"]
    BY <2>1 DEF InsideKinds
  <2> QED BY <1>2, <2>2 DEF DoneStands
<1> QED BY <1>1, <1>2, HeadInside

(* The old list goes: it was read under the same row lock. *)
LEMMA DeleteByEntityInv ==
    ASSUME Inv, Typed', NEW p \in Requests, DeleteByEntity(p)
    PROVE  Inv'
<1> DEFINE r == request[p]
           call == Head(r.calls)
           s == IF HasFiles(call) THEN [r EXCEPT !.pc = "insert"] ELSE Purging(r)
<1>1. r.pc = "delete" /\ r.pc \in Calling
  BY DEF DeleteByEntity, Calling
<1>2. /\ Become(p, s) /\ UNCHANGED <<file, deleted, rowLock>>
      /\ attached' = [attached EXCEPT ![r.id][call.kind] = {}]
  BY DEF DeleteByEntity
<1>3. CASE HasFiles(call)
  <2>1. /\ s.pc = "insert" /\ s.phase = r.phase /\ s.id = r.id
        /\ s.body = r.body /\ s.calls = r.calls /\ s.drop = r.drop
    BY <1>1, <1>3, InCall DEF Request
  <2>2. Ordered(s)
    BY <1>1, <2>1, InCall DEF Ordered, Inside, Calling
  <2>3. ASSUME Inside(r), r.id \notin deleted
        PROVE  Stands(s, attached'[s.id], file')
    <3>1. Stands(r, attached[r.id], file)
      BY <1>1, <2>3, InCall DEF Guarded
    <3>2. \A k \in InsideKinds \ {call.kind} : attached'[r.id][k] = attached[r.id][k]
      BY <1>1, <1>2, OneList DEF InsideKinds, Kinds
    <3>3. DoneStands(r, attached'[r.id], file)
      BY <1>1, <2>3, <3>1, <3>2, InCall, DoneKept DEF Stands
    <3>4. DoneStands(s, attached'[s.id], file')
      BY <1>2, <2>1, <3>3 DEF DoneStands
    <3>6. attached'[r.id][call.kind] = {}
      BY <1>1, <1>2, OneList
    <3>7. call.files # {} /\ r.drop \cap call.files = {}
      BY <1>1, <3>1 DEF Stands, InHandStands
    <3>8. InHandStands(s, attached'[s.id], file')
      BY <2>1, <3>6, <3>7 DEF InHandStands
    <3> QED BY <3>4, <3>8 DEF Stands
  <2>4. Inside(r) => Inside(s)
    BY <2>1 DEF Inside
  <2>5. ~ Inside(r) => Keeps(r, s)
    BY <1>1, <2>1, <2>2, InCall DEF Keeps, Inside
  <2> HIDE DEF s
  <2> QED BY <1>1, <1>2, <2>1, <2>2, <2>3, <2>4, <2>5, CallStep, ListMoves
<1>4. CASE ~ HasFiles(call)
  <2>1. s = Purging(r)
    BY <1>4
  <2>2. ASSUME Inside(r)
        PROVE  /\ Ordered(s) /\ Inside(s) /\ s.id = r.id
               /\ r.id \in deleted
    <3>1. r.id \notin deleted => call.files # {}
      BY <1>1, <2>2, InCall DEF Guarded, Stands, InHandStands
    <3> QED BY <1>1, <1>4, <2>1, <2>2, <3>1, InCall, PurgingStands DEF HasFiles
  <2>3. ~ Inside(r) => Keeps(r, s)
    BY <1>1, <2>1, InCall, PurgingKeeps
  <2> HIDE DEF s
  <2> QED BY <1>1, <1>2, <2>2, <2>3, CallStep, ListMoves
<1> QED BY <1>3, <1>4

(* The new list comes, in an empty place. *)
LEMMA CreateManyInv ==
    ASSUME Inv, Typed', NEW p \in Requests, CreateMany(p)
    PROVE  Inv'
<1> DEFINE r == request[p]
           call == Head(r.calls)
           list == attached[r.id][call.kind] \cup call.files
           s == Purging(r)
<1>1. r.pc = "insert" /\ r.pc \in Calling
  BY DEF CreateMany, Calling
<1>2. /\ Become(p, s) /\ UNCHANGED <<file, deleted, rowLock>>
      /\ attached' = [attached EXCEPT ![r.id][call.kind] = list]
      /\ call.files \subseteq Stored
  BY DEF CreateMany
<1> HIDE DEF list
<1>3. ASSUME Inside(r)
      PROVE  /\ Ordered(s) /\ Inside(s) /\ s.id = r.id
             /\ r.id \notin deleted => Stands(s, attached'[s.id], file')
  <2>1. Ordered(s) /\ Inside(s) /\ s.id = r.id
    BY <1>1, <1>3, InCall, PurgingStands
  <2>2. ASSUME r.id \notin deleted PROVE Stands(s, attached'[r.id], file)
    <3>1. Stands(r, attached[r.id], file)
      BY <1>1, <1>3, <2>2, InCall DEF Guarded
    <3>2. \A k \in InsideKinds \ {call.kind} : attached'[r.id][k] = attached[r.id][k]
      BY <1>1, <1>2, OneList DEF InsideKinds, Kinds
    <3>3. DoneStands(r, attached'[r.id], file)
      BY <1>1, <1>3, <3>1, <3>2, InCall, DoneKept DEF Stands
    <3>4. call.files # {} /\ r.drop \cap call.files = {}
          /\ attached[r.id][call.kind] = {}
      BY <1>1, <3>1 DEF Stands, InHandStands
    <3>6. attached'[r.id][call.kind] = call.files
      <4>1. attached'[r.id][call.kind] = list
        BY <1>1, <1>2, OneList
      <4> QED BY <3>4, <4>1 DEF list
    <3>7. Listed(attached'[r.id][call.kind], call.files, file)
      BY <1>2, <3>6 DEF Listed, Stored
    <3> QED BY <1>1, <1>3, <3>3, <3>4, <3>7, InCall, PurgingStands
  <2> QED BY <1>2, <2>1, <2>2
<1>4. ~ Inside(r) => Keeps(r, s)
  BY <1>1, InCall, PurgingKeeps
<1> HIDE DEF s
<1> QED BY <1>1, <1>2, <1>3, <1>4, CallStep, ListMoves

(* After a file of r.drop has been tried, deleted or not. *)
LEMMA TriedInv ==
    ASSUME Inv, Typed', NEW p \in Requests, request[p].pc = "purge", NEW f,
           Become(p, Purging([request[p] EXCEPT !.drop = @ \ {f}])),
           UNCHANGED <<rowLock, deleted>>,
           \A a \in Approvals : Moved(attached[a], file, attached'[a], file')
    PROVE  Inv'
<1> DEFINE r == request[p]
           t == [r EXCEPT !.drop = @ \ {f}]
           s == Purging(t)
<1>1. r.pc \in Calling
  BY DEF Calling
<1>2. /\ r \in Request /\ Flight(r) /\ Ordered(r) /\ r.id \in Approvals
      /\ r.calls # <<>>
  BY <1>1, InCall
<1>3. /\ t \in Request /\ t.pc = r.pc /\ t.phase = r.phase /\ t.id = r.id
      /\ t.body = r.body /\ t.calls = r.calls /\ t.drop = r.drop \ {f}
  BY <1>2 DEF Request
<1> HIDE DEF t
<1>4. Flight(t) /\ Ordered(t) /\ (Inside(t) <=> Inside(r))
  BY <1>2, <1>3 DEF Flight, Ordered, Inside
<1>5. ASSUME Inside(r)
      PROVE  /\ Ordered(s) /\ Inside(s) /\ s.id = r.id
             /\ r.id \notin deleted => Stands(s, attached'[s.id], file')
  <2>1. Ordered(s) /\ Inside(s) /\ s.id = r.id
    BY <1>1, <1>3, <1>4, <1>5, PurgingStands
  <2>2. ASSUME r.id \notin deleted PROVE Stands(s, attached'[r.id], file')
    <3>1. Stands(r, attached[r.id], file)
      BY <1>1, <1>5, <2>2, InCall DEF Guarded
    <3>2. Stands(r, attached'[r.id], file')
      BY <1>2, <1>5, <3>1, StandsMoved
    <3>3. /\ DoneStands(t, attached'[r.id], file')
          /\ Head(t.calls).files # {} /\ t.drop \cap Head(t.calls).files = {}
          /\ Listed(attached'[r.id][Head(t.calls).kind], Head(t.calls).files, file')
      BY <1>3, <3>2 DEF Stands, DoneStands, InHandStands
    <3> QED BY <1>1, <1>3, <1>4, <1>5, <3>3, PurgingStands
  <2> QED BY <2>1, <2>2
<1>6. ASSUME ~ Inside(r) PROVE Keeps(r, s)
  <2>1. Keeps(t, s)
    BY <1>1, <1>2, <1>3, <1>4, <1>6, InCall, PurgingKeeps
  <2> QED BY <1>3, <2>1 DEF Keeps
<1>7. Become(p, s)
  BY DEF t
<1> HIDE DEF s
<1> QED BY <1>1, <1>5, <1>6, <1>7, CallStep

(* One file after the other is deleted, or fails to be. *)
LEMMA PurgeInv ==
    ASSUME Inv, Typed', NEW p \in Requests, NEW f \in Files,
           PurgeFile(p, f) \/ PurgeFails(p, f)
    PROVE  Inv'
<1>1. \A a \in Approvals : Moved(attached[a], file, attached'[a], file')
  <2>1. CASE PurgeFile(p, f)
    BY <2>1, DeleteMoves DEF PurgeFile, Inv
  <2>2. CASE PurgeFails(p, f)
    BY <2>2, SameMoves DEF PurgeFails
  <2> QED BY <2>1, <2>2
<1> QED BY <1>1, TriedInv DEF PurgeFile, PurgeFails

(* Every step keeps the invariant. *)
LEMMA NextInv == Inv /\ [Next]_vars => Inv'
<1> SUFFICES ASSUME Inv, [Next]_vars PROVE Inv'
  OBVIOUS
<1>1. Typed'
  BY NextTyped DEF Inv
<1>2. CASE \E f \in Files : Upload(f) \/ RemoveFile(f)
  BY <1>1, <1>2, FilesInv
<1>3. ASSUME NEW p \in Requests, Arrive(p) PROVE Inv'
  BY <1>1, <1>3, StartInv DEF Arrive
<1>4. ASSUME NEW p \in Requests, Proceed(p) PROVE Inv'
  BY <1>1, <1>4, UpdateInv, CommitInv, SoftDeleteInv, SkipCallInv,
     FindByEntityInv, DeleteByEntityInv, CreateManyInv, EndInv, PurgeInv
  DEF Proceed
<1>5. ASSUME NEW p \in Requests, Abort(p) PROVE Inv'
  BY <1>1, <1>5, EndInv
<1>6. CASE UNCHANGED vars
  <2>1. \A p \in Requests : Guarded(p)' = Guarded(p)
    BY <1>6 DEF vars, Guarded
  <2> QED BY <1>1, <2>1 DEF Inv
<1> QED BY <1>2, <1>3, <1>4, <1>5, <1>6 DEF Next

(* While update() holds the row of its approval, the lists it has replaced
   show the files of its body, and the list in hand is where the statement
   before left it, however other updates, deletions of files, errors and ends
   of processes interleave. *)
THEOREM Invariance == Spec => []Inv
BY InitInv, NextInv, PTL DEF Spec

(* When update() commits, the lists it replaced in its transaction show
   exactly the files of its body that exist, for any files, approvals, bodies,
   requests and faults. *)
THEOREM CommittedLists == Spec => []CommittedListsStand
<1>1. Inv => CommittedListsStand
  <2> SUFFICES ASSUME Inv, NEW p \in Requests,
                      request[p].pc = "commit", request[p].id \notin deleted,
                      NEW i \in DOMAIN InsideCalls(request[p].body),
                      HasFiles(InsideCalls(request[p].body)[i])
               PROVE  LET call == InsideCalls(request[p].body)[i]
                      IN  attached[request[p].id][call.kind] =
                              call.files \cap Stored
    BY DEF CommittedListsStand
  <2> DEFINE r == request[p]
             lists == attached[r.id]
  <2>1. Flight(r) /\ Guarded(p)
    BY DEF Inv, Typed
  <2>2. Inside(r) /\ r.body \in Body
    BY <2>1 DEF Flight, Inside
  <2>3. r.calls = <<>>
    BY <2>1, <2>2 DEF Guarded, Ordered, Calling
  <2>4. DoneStands(r, lists, file)
    BY <2>1, <2>2 DEF Guarded, Stands
  <2>5. r.body.document \subseteq Files /\ r.body.signature \subseteq Files
    BY <2>2 DEF Body
  <2>6. \A list : \A files \in SUBSET Files :
            Listed(list, files, file) => list = files \cap Stored
    BY DEF Listed, Stored
  <2>7. /\ r.body.document # {} => lists["document"] = r.body.document \cap Stored
        /\ r.body.signature # {} => lists["signature"] = r.body.signature \cap Stored
    BY <2>3, <2>4, <2>5, <2>6 DEF DoneStands
  <2>8. CASE i = 1
    BY <2>7, <2>8 DEF InsideCalls, HasFiles
  <2>9. CASE i = 2
    BY <2>7, <2>9 DEF InsideCalls, HasFiles
  <2> QED BY <2>8, <2>9 DEF InsideCalls
<1> QED BY Invariance, <1>1, PTL

(* No file that a list replaced inside a transaction shows is in line to be
   deleted as unused. *)
THEOREM FilesKept == Spec => []FilesInUseAreKept
<1>1. Inv => FilesInUseAreKept
  <2> SUFFICES ASSUME Inv, NEW p \in Requests, request[p].pc = "purge",
                      request[p].phase = "inside", request[p].id \notin deleted
               PROVE  request[p].drop
                        \cap attached[request[p].id][Head(request[p].calls).kind] = {}
    BY DEF FilesInUseAreKept
  <2>1. Stands(request[p], attached[request[p].id], file)
    BY DEF Inv, Guarded, Inside
  <2> QED BY <2>1 DEF Stands, InHandStands, Listed
<1> QED BY Invariance, <1>1, PTL

-----------------------------------------------------------------------------
(* No file is forgotten *)

(* The foreign key: only files that exist are attached. *)
AttachedExist ==
    \A a \in Approvals, k \in Kinds, f \in Files :
        f \in attached[a][k] => file[f] = "stored"

(* Every step attaches files that exist, or takes attachments away. *)
LEMMA AttachedExistStep ==
    ASSUME Inv, AttachedExist, [Next]_vars
    PROVE  AttachedExist'
<1> USE DEF AttachedExist
<1>1. /\ file \in [Files -> {"none", "stored", "deleted"}]
      /\ attached \in [Approvals -> [Kinds -> SUBSET Files]]
  BY DEF Inv, Typed, TypeOK
<1>2. ASSUME NEW f \in Files, Upload(f) PROVE AttachedExist'
  BY <1>1, <1>2 DEF Upload
<1>3. ASSUME NEW f \in Files, DeleteFile(f) PROVE AttachedExist'
  BY <1>1, <1>3 DEF DeleteFile
<1>4. CASE UNCHANGED <<file, attached>>
  BY <1>4
<1>5. ASSUME NEW p \in Requests, DeleteByEntity(p) PROVE AttachedExist'
  <2>1. attached' = [attached EXCEPT
            ![request[p].id][Head(request[p].calls).kind] = {}] /\ file' = file
    BY <1>5 DEF DeleteByEntity
  <2>2. request[p].pc \in Calling
    BY <1>5 DEF DeleteByEntity, Calling
  <2> QED BY <2>1, <2>2, OneList
<1>6. ASSUME NEW p \in Requests, CreateMany(p) PROVE AttachedExist'
  <2> DEFINE old == attached[request[p].id][Head(request[p].calls).kind]
             list == old \cup Head(request[p].calls).files
  <2>1. attached' = [attached EXCEPT
            ![request[p].id][Head(request[p].calls).kind] = list]
        /\ file' = file
    BY <1>6 DEF CreateMany
  <2>2. request[p].pc \in Calling
    BY <1>6 DEF CreateMany, Calling
  <2>3. request[p].id \in Approvals /\ Head(request[p].calls).kind \in Kinds
    BY <2>2, InCall DEF Call
  <2>4. \A f \in list : file[f] = "stored"
    BY <1>1, <1>6, <2>3 DEF CreateMany, Stored
  <2> HIDE DEF list
  <2> QED BY <2>1, <2>2, <2>4, OneList
<1> QED
  BY <1>2, <1>3, <1>4, <1>5, <1>6
  DEF Next, Arrive, Proceed, RemoveFile, StartUpdate, StartRemove, Update,
      Commit, SoftDelete, SkipCall, FindByEntity, CreateManyRefused,
      PurgeFile, PurgeFails, Abort, vars

(* A file that a list replaced inside a transaction stops showing is gone, or
   in the hand of the update that emptied the list: to be deleted, or to be
   put back. *)
THEOREM NotForgotten == Spec => NoFileForgotten
<1> DEFINE Left(a, k, f) ==
               \/ file'[f] = "deleted"
               \/ \E p \in Requests :
                      request'[p].id = a /\ f \in InHand(request'[p])
           Keep == \A a \in Approvals \ deleted, k \in InsideKinds :
                       \A f \in attached[a][k] \ attached'[a][k] : Left(a, k, f)
<1>1. ASSUME Inv, AttachedExist, [Next]_vars PROVE Keep
  <2> SUFFICES ASSUME NEW a \in Approvals \ deleted, NEW k \in InsideKinds,
                      NEW f \in attached[a][k], f \notin attached'[a][k]
               PROVE  Left(a, k, f)
    OBVIOUS
  <2>1. /\ f \in Files /\ file[f] = "stored" /\ k \in Kinds
        /\ file \in [Files -> {"none", "stored", "deleted"}]
        /\ attached \in [Approvals -> [Kinds -> SUBSET Files]]
    BY <1>1 DEF Inv, Typed, TypeOK, AttachedExist, InsideKinds, Kinds
  <2>2. ASSUME NEW g \in Files, DeleteFile(g) PROVE Left(a, k, f)
    BY <2>1, <2>2 DEF DeleteFile
  <2>3. ASSUME NEW p \in Requests, CreateMany(p) PROVE FALSE
    <3>1. request[p].pc \in Calling
      BY <2>3 DEF CreateMany, Calling
    <3>2. attached' = [attached EXCEPT
              ![request[p].id][Head(request[p].calls).kind] =
                  @ \cup Head(request[p].calls).files]
      BY <2>3 DEF CreateMany
    <3> QED BY <2>1, <3>2
  <2>4. ASSUME NEW p \in Requests, DeleteByEntity(p) PROVE Left(a, k, f)
    <3> DEFINE r == request[p]
               call == Head(r.calls)
    <3>1. r.pc = "delete" /\ r.pc \in Calling
      BY <2>4 DEF DeleteByEntity, Calling
    <3>2. attached' = [attached EXCEPT ![r.id][call.kind] = {}]
      BY <2>4 DEF DeleteByEntity
    <3>3. a = r.id /\ k = call.kind
      BY <2>1, <3>2
    <3>4. Inside(r)
      <4>1. r.phase # "remove"
        BY <1>1, <3>1, <3>3, InCall DEF Guarded
      <4>2. r.phase # "after"
        BY <1>1, <3>1, <3>3, InCall, OutsideTail DEF Ordered
      <4> QED BY <1>1, <3>1, <4>1, <4>2, InCall
    <3>5. InHandStands(r, attached[r.id], file)
      BY <1>1, <3>1, <3>3, <3>4, InCall DEF Guarded, Stands
    <3>6. call.files # {} /\ f \in r.drop \cup call.files
      BY <3>1, <3>3, <3>5 DEF InHandStands
    <3>7. request'[p] = [r EXCEPT !.pc = "insert"]
      BY <1>1, <2>4, <3>6, BecomeOthers DEF DeleteByEntity, HasFiles
    <3>8. /\ request'[p].id = a /\ request'[p].drop = r.drop
          /\ request'[p].calls = r.calls /\ r.calls # <<>>
      BY <1>1, <3>1, <3>3, <3>7, InCall DEF Request
    <3> QED BY <3>6, <3>8 DEF InHand
  <2>5. CASE UNCHANGED attached
    BY <2>5
  <2> HIDE DEF Left
  <2> QED
    BY <1>1, <2>2, <2>3, <2>4, <2>5
    DEF Next, Arrive, Proceed, Upload, RemoveFile, StartUpdate, StartRemove,
        Update, Commit, SoftDelete, SkipCall, FindByEntity, CreateManyRefused,
        PurgeFile, PurgeFails, Abort, vars
<1>2. Init => AttachedExist
  BY DEF Init, AttachedExist
<1>3. Inv /\ AttachedExist /\ [Next]_vars => [Keep]_vars
  BY <1>1
<1>4. Inv /\ AttachedExist /\ [Next]_vars => AttachedExist'
  BY AttachedExistStep
<1>5. Spec => [][Keep]_vars
  BY Invariance, <1>2, <1>3, <1>4, PTL DEF Spec
<1> QED BY <1>5 DEF NoFileForgotten

-----------------------------------------------------------------------------
(* The foreign key holds at every step: no list shows a file that is not
   there, whoever deletes files while lists are replaced (file_id). *)
THEOREM ForeignKey == Spec => []AttachedExist
<1>1. Init => AttachedExist
  BY DEF Init, AttachedExist
<1>2. Inv /\ AttachedExist /\ [Next]_vars => AttachedExist'
  BY AttachedExistStep
<1> QED BY Invariance, <1>1, <1>2, PTL DEF Spec

(* A list that is replaced inside a transaction is never one of two bodies
   mixed, not even between two statements of updateAttachments: it only
   shrinks, or is filled at once and from nothing, with what the body of the
   update says that holds the row. *)
ListsNeverMix ==
    [][\A a \in Approvals \ deleted, k \in InsideKinds :
          \/ attached'[a][k] \subseteq attached[a][k]
          \/ /\ attached[a][k] = {}
             /\ rowLock[a] # Nil
             /\ attached'[a][k] = request[rowLock[a]].body[k]]_vars

(* A call for such a list, of an approval that stands, is one of an update
   inside its transaction, and for the list of its body. *)
LEMMA CallOfTransaction ==
    ASSUME Inv, NEW p \in Requests, request[p].pc \in Calling,
           request[p].id \notin deleted, Head(request[p].calls).kind \in InsideKinds
    PROVE  LET r == request[p]
           IN  /\ Inside(r) /\ rowLock[r.id] = p
               /\ Head(r.calls).files = r.body[Head(r.calls).kind]
<1> DEFINE r == request[p]
<1>1. r.phase # "remove"
  BY InCall DEF Guarded
<1>2. r.phase # "after"
  BY InCall, OutsideTail DEF Ordered
<1>3. Inside(r) /\ Ordered(r) /\ rowLock[r.id] = p
  BY <1>1, <1>2, InCall DEF Guarded
<1>4. Head(r.calls) \in {InsideCalls(r.body)[1], InsideCalls(r.body)[2]}
  BY <1>3 DEF Ordered, Calling, InsideCalls
<1>5. \A i \in {1, 2} : InsideCalls(r.body)[i].files = r.body[InsideCalls(r.body)[i].kind]
  BY DEF InsideCalls
<1> QED BY <1>3, <1>4, <1>5

(* A list replaced inside a transaction is never a mixture of two bodies
   (updateAttachments), however many updates, removals, uploads and deletions
   interleave. *)
THEOREM NeverMixed == Spec => ListsNeverMix
<1> DEFINE Pure(a, k) ==
               \/ attached'[a][k] \subseteq attached[a][k]
               \/ /\ attached[a][k] = {}
                  /\ rowLock[a] # Nil
                  /\ attached'[a][k] = request[rowLock[a]].body[k]
           Unmixed == \A a \in Approvals \ deleted, k \in InsideKinds : Pure(a, k)
<1>1. ASSUME Inv, [Next]_vars PROVE Unmixed
  <2> SUFFICES ASSUME NEW a \in Approvals \ deleted, NEW k \in InsideKinds
               PROVE  Pure(a, k)
    OBVIOUS
  <2>1. /\ k \in Kinds /\ attached \in [Approvals -> [Kinds -> SUBSET Files]]
    BY <1>1 DEF Inv, Typed, TypeOK, InsideKinds, Kinds
  <2>2. ASSUME NEW g \in Files, DeleteFile(g) PROVE Pure(a, k)
    BY <2>1, <2>2 DEF DeleteFile
  <2>3. ASSUME NEW p \in Requests, CreateMany(p) PROVE Pure(a, k)
    <3> DEFINE r == request[p]
               call == Head(r.calls)
               list == attached[r.id][call.kind] \cup call.files
    <3>1. r.pc = "insert" /\ r.pc \in Calling
      BY <2>3 DEF CreateMany, Calling
    <3>2. attached' = [attached EXCEPT ![r.id][call.kind] = list]
      BY <2>3 DEF CreateMany
    <3>3. CASE a = r.id /\ k = call.kind
      <4>1. Inside(r) /\ rowLock[a] = p /\ call.files = r.body[k]
        BY <1>1, <3>1, <3>3, CallOfTransaction
      <4>2. attached[a][k] = {}
        BY <1>1, <3>1, <3>3, <4>1, InCall DEF Guarded, Stands, InHandStands
      <4>3. attached'[a][k] = list
        <5> HIDE DEF list
        <5>1. attached'[r.id][call.kind] = list
          BY <1>1, <3>1, <3>2, OneList
        <5> QED BY <3>3, <5>1
      <4>4. rowLock[a] # Nil
        BY <4>1, AttachmentsAssumption
      <4> QED BY <3>3, <4>1, <4>2, <4>3, <4>4
    <3>4. CASE ~(a = r.id /\ k = call.kind)
      <4> HIDE DEF list
      <4>1. attached'[a][k] = attached[a][k]
        BY <1>1, <2>1, <3>1, <3>2, <3>4, OneList
      <4> QED BY <4>1
    <3> QED BY <3>3, <3>4
  <2>4. ASSUME NEW p \in Requests, DeleteByEntity(p) PROVE Pure(a, k)
    <3>1. attached' = [attached EXCEPT ![request[p].id][Head(request[p].calls).kind] = {}]
      BY <2>4 DEF DeleteByEntity
    <3> QED BY <2>1, <3>1
  <2>5. CASE UNCHANGED attached
    BY <2>5
  <2> HIDE DEF Pure
  <2> QED
    BY <1>1, <2>2, <2>3, <2>4, <2>5
    DEF Next, Arrive, Proceed, Upload, RemoveFile, StartUpdate, StartRemove,
        Update, Commit, SoftDelete, SkipCall, FindByEntity, CreateManyRefused,
        PurgeFile, PurgeFails, Abort, vars
<1>2. Inv /\ [Next]_vars => [Unmixed]_vars
  BY <1>1
<1>3. Spec => [][Unmixed]_vars
  BY Invariance, <1>2, PTL DEF Spec
<1> QED BY <1>3 DEF ListsNeverMix
=============================================================================

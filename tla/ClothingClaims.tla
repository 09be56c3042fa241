--------------------------- MODULE ClothingClaims ---------------------------
(***************************************************************************)
(* Claims for clothing: the rows of approval_clothing_expense, the days on *)
(* which their employees reported for duty and may claim again, and the    *)
(* check of who is eligible.                                               *)
(*                                                                         *)
(* Rows come with submissions and copies of approvals and go with          *)
(* resubmissions and cancellations; clerks enter their dates, for an       *)
(* approval or by hand, and a nightly job fills in those that are missing. *)
(* A copy is made of a detail that findById has read earlier, perhaps for  *)
(* the cache; ApprovalDetails has its queries one by one.  Days are        *)
(* numbers; the three kinds of temporary journeys abroad are one,          *)
(* "temporary".                                                            *)
(***************************************************************************)
EXTENDS Integers

CONSTANTS Employees, Approvals,
          Destinations,
          AttireGroup,   \* the PERMANENT group of a destination, or Nil
          PermA,         \* the group that stands in for a missing one
          Submissions,   \* what update() is sent: the kind of journey, the team
                         \* or Missing, where it goes
          Bodies,        \* dates that clerks send, each given, null or missing
          ByHand,        \* the same, for claims added or amended one by one
          DutyDays,      \* days on which employees report, in ViewDutyFormCommands
          Questions,     \* what is asked about employees
          TwoYears,      \* 2 * 365 in the code
          MaxDay,        \* bound: days
          MaxWrites,     \* bound: requests that write, and errors of the database
          Missing, Invalid, Nil

Days == 0..MaxDay
Kinds == {"international", "temporary"}

ASSUME ClaimsAssumption ==
    /\ {TwoYears, MaxDay, MaxWrites} \subseteq Nat
    /\ DutyDays \subseteq Int
    /\ Missing # Nil
    /\ Nil \notin Int /\ Missing \notin Int /\ Invalid \notin Int
    /\ Nil \notin Approvals \cup Kinds \cup {"other"}
    /\ Nil \notin (1..MaxWrites) \X Employees
    /\ Submissions \subseteq [kind : Kinds \cup {"other"}, team : (SUBSET Employees) \cup {Missing},
                              destination : Destinations \cup {Nil}]
    /\ Bodies \cup ByHand
           \subseteq [reporting : Int \cup {Missing, Nil}, next : Int \cup {Missing, Nil}]
    /\ Questions \subseteq
           [employee : Employees, approval : Approvals \cup {Nil}, kind : Kinds \cup {"other"},
            destination : Destinations \cup {Nil}, start : Int,
            transfer : {Nil} \cup [day : Int, destination : Destinations \cup {Nil}]]

VARIABLES today,
          travelType,   \* of each approval, Nil before it is created
          deleted,      \* approvals deleted softly; their claims stay
          claims,       \* approval_clothing_expense
          writes,       \* requests so far; they order the claims
          found,        \* a detail that findById has read, still cached or in hand
          raw,          \* copies that are cached as the row that was inserted
          duty,         \* first day in ViewDutyFormCommands; not written here
          left,         \* keys that the job has found and not been through
          current,      \* the key the job is at, with the day it has found
          entered       \* those of them that clerks have dated meanwhile

table == <<travelType, deleted, claims, writes>>
details == <<found, raw>>
job == <<left, current, entered>>
vars == <<today, table, details, duty, job>>

Key(c) == <<c.batch, c.employee>>
ClaimsIn(a) == {c \in claims : c.approval = a}
ClaimsOf(e) == {c \in claims : c.employee = e}
Newest(some) == CHOOSE c \in some : \A d \in some : d.batch <= c.batch
Idle == [key |-> Nil, day |-> Nil]

InHand == left \cup ({current.key} \ {Nil})

NextClaimDate(day) == day + TwoYears + 1
OverTwoYears(since, start) == start - since > TwoYears

-----------------------------------------------------------------------------
(* checkClothingExpenseEligibility of one employee, asked with or without an
   approval.  The last transfer in PS_PW_JOB comes with the question. *)
Group(d) == IF d = Nil THEN Nil ELSE IF AttireGroup[d] = Nil THEN PermA ELSE AttireGroup[d]

PeriodOfAnyone(q) ==                \* a variant: employee_code is not asked for
    LET same == {c \in claims : travelType[c.approval] = q.kind}
    IN  same = {} \/ (Newest(same).next # Nil /\ today >= Newest(same).next)
PeriodIsOver(q) ==
    LET same == {c \in ClaimsOf(q.employee) : travelType[c.approval] = q.kind}
    IN  same = {} \/ (Newest(same).next # Nil /\ today >= Newest(same).next)

(* Another group of destinations than last time, or the same after two years. *)
GroupAllows(last, since, q) ==
    Group(last) # Group(q.destination) \/ OverTwoYears(since, q.start)

TransferAllows(q) ==
    \/ q.transfer = Nil
    \/ q.kind = "temporary" /\ OverTwoYears(q.transfer.day, q.start)
    \/ /\ q.kind = "international"
       /\ \/ Nil \in {Group(q.transfer.destination), Group(q.destination)}
          \/ GroupAllows(q.transfer.destination, q.transfer.day, q)

(* The destination of the last claim of any kind counts. *)
LastClaimAllows(q) ==
    LET last == Newest(ClaimsOf(q.employee))
    IN  GroupAllows(last.destination, last.created, q)

Comparable(q) ==
    /\ q.kind = "international"
    /\ ClaimsOf(q.employee) # {}
    /\ Nil \notin {Group(Newest(ClaimsOf(q.employee)).destination), Group(q.destination)}

Eligible(q) ==
    IF q.approval # Nil /\ ClaimsIn(q.approval) # {} THEN TRUE
    ELSE /\ q.kind \in Kinds
         /\ PeriodIsOver(q)
         /\ IF Comparable(q) THEN LastClaimAllows(q) ELSE TransferAllows(q)

-----------------------------------------------------------------------------
Midnight ==
    /\ today < MaxDay
    /\ today' = today + 1
    /\ UNCHANGED <<table, details, duty, job>>

(* Someone is posted, or the first record found is another.  Its day may be
   one that cannot be formatted. *)
Report(e) ==
    /\ \E day \in (DutyDays \cup {Invalid}) \ {duty[e]} : duty' = [duty EXCEPT ![e] = day]
    /\ UNCHANGED <<today, table, details, job>>

Writes == writes < MaxWrites /\ writes' = writes + 1

NewClaim(a, e, d) ==
    [batch |-> writes + 1, employee |-> e, approval |-> a, destination |-> d,
     created |-> today, reporting |-> Nil, next |-> Nil]

(* findById: what has been read of a deleted approval is still found. *)
Found(a) == a \notin deleted \/ (found # Nil /\ found.of = a)

(* Bounds: one detail at a time, while there is an approval to copy it to.  A
   writer deletes the cached one, but not what a request has in hand and may
   put back, so that none is sure to be gone before it expires.  The row of a
   copy names no traveller and no kind. *)
Find(a) ==
    /\ found = Nil /\ \E b \in Approvals : travelType[b] = Nil
    /\ travelType[a] # Nil /\ a \notin deleted
    /\ found' = IF a \in raw THEN [of |-> a, kind |-> "other", claims |-> {}]
                ELSE [of |-> a, kind |-> travelType[a], claims |-> ClaimsIn(a)]
    /\ UNCHANGED <<today, table, raw, duty, job>>

Expire ==
    /\ \/ found # Nil /\ found' = Nil /\ UNCHANGED raw
       \/ UNCHANGED found /\ \E a \in raw : raw' = raw \ {a}
    /\ UNCHANGED <<today, table, duty, job>>

(* update(): the claims of the approval are deleted before existing ones are
   looked for, so dates never survive.  Without a team they are left alone. *)
Submit(a, update) ==
    /\ Found(a)
    /\ Writes
    /\ travelType' = [travelType EXCEPT ![a] = update.kind]
    /\ claims' = IF update.team = Missing THEN claims
                 ELSE (claims \ ClaimsIn(a)) \cup {NewClaim(a, e, update.destination) : e \in update.team}
    /\ raw' = raw \ {a}
    /\ UNCHANGED <<today, deleted, found, duty, job>>

(* duplicate(): claims and dates are copied as the detail shows them. *)
Duplicate(b) ==
    /\ found # Nil /\ travelType[b] = Nil
    /\ Writes
    /\ travelType' = [travelType EXCEPT ![b] = found.kind]
    /\ claims' = claims \cup
           {[c EXCEPT !.batch = writes + 1, !.approval = b, !.created = today] : c \in found.claims}
    /\ raw' = raw \cup {b}
    /\ UNCHANGED <<today, deleted, found, duty, job>>

SoftDelete(a) ==
    /\ Writes
    /\ travelType[a] # Nil /\ a \notin deleted
    /\ deleted' = deleted \cup {a}
    /\ raw' = raw \ {a}
    /\ UNCHANGED <<today, travelType, claims, found, duty, job>>

(* A request to cancel claims is approved; nobody tells the cache. *)
CancelClaims(a, team) ==
    /\ Writes
    /\ claims' = {c \in claims : ~(c.approval = a /\ c.employee \in team)}
    /\ claims' # claims
    /\ UNCHANGED <<today, travelType, deleted, details, duty, job>>

(* updateClothingExpenseDates: all claims of the approval at once.  What is
   missing stays as it is; a report comes with the next date, if none is given. *)
NextOf(body) ==
    IF body.reporting \in Int /\ body.next \notin Int THEN NextClaimDate(body.reporting) ELSE body.next
Given(new, old) == IF new = Missing THEN old ELSE new
EnterRaw(a, body) ==                \* a variant: undefined is written
    /\ travelType[a] # Nil /\ Found(a)
    /\ Writes
    /\ claims' = {IF c.approval = a THEN [c EXCEPT !.reporting = body.reporting, !.next = NextOf(body)]
                                    ELSE c : c \in claims}
    /\ entered' = entered \cup ({Key(c) : c \in ClaimsIn(a)} \cap InHand)
    /\ raw' = raw \ {a}
    /\ UNCHANGED <<today, travelType, deleted, found, duty, left, current>>
EnterDates(a, body) ==
    /\ travelType[a] # Nil /\ Found(a)
    /\ Writes
    /\ claims' = {IF c.approval = a
                  THEN [c EXCEPT !.reporting = Given(body.reporting, @), !.next = Given(NextOf(body), @)]
                  ELSE c : c \in claims}
    /\ entered' = entered \cup ({Key(c) : c \in ClaimsIn(a)} \cap InHand)
    /\ raw' = raw \ {a}
    /\ UNCHANGED <<today, travelType, deleted, found, duty, left, current>>

(* The endpoints of ApprovalClothingExpenseService, which know neither the
   cache nor the two years.  Bounds: a claim added is the only one of its
   employee in an approval, and one amended keeps both; one deleted goes as a
   cancelled one does. *)
AddClaim(a, e, body) ==
    /\ travelType[a] # Nil /\ \A c \in ClaimsIn(a) : c.employee # e
    /\ Writes
    /\ claims' = claims \cup {[NewClaim(a, e, Nil) EXCEPT !.reporting = Given(body.reporting, Nil),
                                                         !.next = Given(body.next, Nil)]}
    /\ UNCHANGED <<today, travelType, deleted, details, duty, job>>
AmendClaim(c, body) ==
    /\ Writes
    /\ claims' = (claims \ {c}) \cup {[c EXCEPT !.reporting = Given(body.reporting, @),
                                                !.next = Given(body.next, @)]}
    /\ entered' = entered \cup ({Key(c)} \cap InHand)
    /\ UNCHANGED <<today, travelType, deleted, details, duty, left, current>>

-----------------------------------------------------------------------------
(* The nightly job: one query for all claims, then two for each. *)
FindAll ==
    /\ left = {} /\ current = Idle
    /\ left' = {Key(c) : c \in claims}
    /\ UNCHANGED <<today, table, details, duty, current, entered>>
FindPending ==
    /\ left = {} /\ current = Idle
    /\ left' = {Key(c) : c \in {d \in claims : d.reporting = Nil}}
    /\ left' # {}
    /\ UNCHANGED <<today, table, details, duty, current, entered>>

FindDuty(key) ==
    /\ current = Idle
    /\ key \in left
    /\ left' = left \ {key}
    /\ current' = IF duty[key[2]] = Nil THEN Idle ELSE [key |-> key, day |-> duty[key[2]]]
    /\ entered' = entered \cap InHand'
    /\ UNCHANGED <<today, table, details, duty>>

(* The claim may be gone, or dated, by now. *)
CopyToEmployee(key) ==
    /\ current.key = key /\ current.day # Invalid
    /\ claims' = {IF c.employee = key[2]
                  THEN [c EXCEPT !.reporting = current.day, !.next = NextClaimDate(current.day)]
                  ELSE c : c \in claims}
    /\ current' = Idle
    /\ entered' = entered \cap left
    /\ UNCHANGED <<today, travelType, deleted, writes, details, duty, left>>
CopyReportDate(key) ==
    /\ current.key = key /\ current.day # Invalid
    /\ claims' = {IF Key(c) = key
                  THEN [c EXCEPT !.reporting = current.day, !.next = NextClaimDate(current.day)]
                  ELSE c : c \in claims}
    /\ current' = Idle
    /\ entered' = entered \cap left
    /\ UNCHANGED <<today, travelType, deleted, writes, details, duty, left>>

Broken ==
    \/ current.day = Invalid /\ UNCHANGED writes
    \/ current.day \in DutyDays /\ Writes
FailEndsJob ==
    /\ Broken
    /\ current' = Idle
    /\ left' = {} /\ entered' = {}
    /\ UNCHANGED <<today, travelType, deleted, claims, details, duty>>
(* A claim that cannot be dated does not keep the job from the next one. *)
Fail ==
    /\ Broken
    /\ current' = Idle
    /\ entered' = entered \cap left
    /\ UNCHANGED <<today, travelType, deleted, claims, details, duty, left>>

Init ==
    /\ today = 0
    /\ travelType = [a \in Approvals |-> Nil]
    /\ deleted = {} /\ claims = {} /\ writes = 0
    /\ found = Nil /\ raw = {}
    /\ duty = [e \in Employees |-> Nil]
    /\ left = {} /\ current = Idle /\ entered = {}

Keys == (1..MaxWrites) \X Employees
JobStep == FindPending \/ Fail \/ \E key \in Keys : FindDuty(key) \/ CopyReportDate(key)

Next ==
    \/ Midnight \/ JobStep \/ Expire
    \/ \E e \in Employees : Report(e)
    \/ \E a \in Approvals :
          \/ \E update \in Submissions : Submit(a, update)
          \/ Find(a) \/ Duplicate(a) \/ SoftDelete(a)
          \/ \E team \in SUBSET Employees : CancelClaims(a, team)
          \/ \E body \in Bodies : EnterDates(a, body)
          \/ \E e \in Employees, body \in ByHand : AddClaim(a, e, body)
    \/ \E c \in claims, body \in ByHand : AmendClaim(c, body)

Spec == Init /\ [][Next]_vars

(* The job runs night after night, and its awaits are answered. *)
FairSpec == Spec /\ WF_vars(JobStep)

-----------------------------------------------------------------------------
Claim == [batch : 1..writes, employee : Employees, approval : Approvals,
          destination : Destinations \cup {Nil}, created : Days,
          reporting : Int \cup {Nil}, next : Int \cup {Nil}]

Shown == IF found = Nil THEN {} ELSE found.claims

(* Types; the key of a claim is its own. *)
TypeOK ==
    /\ today \in Days
    /\ travelType \in [Approvals -> Kinds \cup {"other", Nil}]
    /\ deleted \subseteq Approvals /\ raw \subseteq Approvals
    /\ writes \in 0..MaxWrites
    /\ claims \subseteq Claim
    /\ \A c, d \in claims : Key(c) = Key(d) => c = d
    /\ found # Nil => found.of \in Approvals /\ found.kind \in Kinds \cup {"other"}
    /\ Shown \subseteq Claim
    /\ duty \in [Employees -> DutyDays \cup {Invalid, Nil}]
    /\ left \subseteq Keys /\ entered \subseteq InHand
    /\ current = Idle \/ current \in [key : Keys, day : DutyDays \cup {Invalid}]

(* What the job has found and not yet written has no reporting date, whatever
   was resubmitted, copied or added since, unless a clerk has entered one
   while it ran (copyReportDate).  That entry is lost, as the job does not ask
   again, and so is any date for the next claim that had been entered without
   a report. *)
JobKeepsEarlierDates ==
    \A c \in claims :
        (Key(c) \in left \/ Key(c) = current.key) /\ c.reporting # Nil => Key(c) \in entered

(* However the nightly job splits finding a day and writing it, whatever is
   submitted, copied, cancelled and entered in between, and wherever it fails:
   a claim gets its two dates together, from a day on which its own employee
   was found on duty, or from a clerk, and the claims of a request come
   together, new or as a detail showed them (ClaimLedger). *)
Claiming == INSTANCE ClaimLedger WITH
    shown <- Shown,
    days <- [e \in Employees |->
                 ({duty[e]} \cup (IF current # Idle /\ current.key[2] = e THEN {current.day} ELSE {}))
                     \cap DutyDays]
ImplementsClaiming == Claiming!Spec

(* Whatever is done for others, an employee is told the same as before about a
   new approval (checkClothingExpenseEligibility), or may claim where he might
   not the day before.  The answer is his own: it takes a step that adds,
   removes or dates a claim of his, or changes the kind of its journey. *)
Untouched(e) ==
    /\ ClaimsOf(e)' = ClaimsOf(e)
    /\ \A c \in ClaimsOf(e) : travelType'[c.approval] = travelType[c.approval]
AnswersAreOwn ==
    [][\A q \in Questions :
           q.approval = Nil /\ Untouched(q.employee) =>
               Eligible(q)' = Eligible(q) \/ (Midnight /\ Eligible(q)')]_vars

(* The claims of an employee who stays on duty are all dated some night,
   though the job stumbles over others every night (copyReportDate). *)
ClaimsGetDated ==
    \A e \in Employees :
        <>[](duty[e] \in DutyDays) => []<>(\A c \in ClaimsOf(e) : c.reporting # Nil)
=============================================================================

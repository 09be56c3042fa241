------------------------ MODULE ClothingClaimsProofs ------------------------
(***************************************************************************)
(* Proofs about ClothingClaims: type correctness with the key of a claim   *)
(* its own; that the nightly job keeps dates of reports which stood before *)
(* it looked and passes over no claim; that the answer about eligibility   *)
(* is an employee's own; and that all who write claims keep to ClaimLedger *)
(***************************************************************************)
EXTENDS ClothingClaims, WellFoundedInduction, TLAPS

(* A copy takes over all claims of a detail under one batch, so a detail and
   an approval must have one for an employee at most, and an approval that
   does not exist yet none. *)
OncePerApproval ==
    /\ \A c, d \in claims : c.approval = d.approval /\ c.employee = d.employee => c = d
    /\ \A a \in Approvals : travelType[a] = Nil => ClaimsIn(a) = {}
OncePerDetail == \A c, d \in Shown : c.employee = d.employee => c = d

(* The job holds keys of claims that have been inserted, each once. *)
HandsOnPast ==
    /\ current.key \notin left
    /\ \A key \in InHand : key[1] <= writes

Inv == TypeOK /\ OncePerApproval /\ OncePerDetail /\ HandsOnPast

-----------------------------------------------------------------------------
(* Types of the operators *)

(* The key of a claim is one of the keys, and no key is Nil. *)
LEMMA KeyType ==
    ASSUME TypeOK
    PROVE  \A c \in claims : Key(c) \in Keys /\ Key(c) # Nil /\ c.batch <= writes
BY ClaimsAssumption DEF TypeOK, Claim, Key, Keys

(* A new claim has a key that no claim has. *)
LEMMA NewClaimType ==
    ASSUME TypeOK, writes' = writes + 1, NEW a \in Approvals, NEW e \in Employees,
           NEW d \in Destinations \cup {Nil}
    PROVE  NewClaim(a, e, d) \in Claim'
BY DEF TypeOK, NewClaim, Claim, Days

(* Claims stay claims while rows are added. *)
LEMMA ClaimGrows ==
    ASSUME TypeOK, writes' = writes + 1
    PROVE  claims \subseteq Claim'
BY DEF TypeOK, Claim

-----------------------------------------------------------------------------
(* Claims as the actions leave them: well typed, with keys of their own, one
   for an employee in an approval, none in an approval that is not there. *)
ClaimsOK ==
    /\ claims \subseteq Claim
    /\ \A c, d \in claims : Key(c) = Key(d) => c = d
    /\ OncePerApproval

(* Submissions replace the claims of an approval by one for each employee. *)
LEMMA SubmitClaims ==
    ASSUME Inv, NEW a \in Approvals, NEW update \in Submissions, Submit(a, update)
    PROVE  ClaimsOK'
<1>1. /\ writes \in Nat /\ writes' = writes + 1
      /\ travelType' = [travelType EXCEPT ![a] = update.kind]
      /\ travelType \in [Approvals -> Kinds \cup {"other", Nil}]
  BY DEF Submit, Writes, Inv, TypeOK
<1>2. /\ update.destination \in Destinations \cup {Nil}
      /\ update.kind # Nil
      /\ update.team # Missing => update.team \subseteq Employees
  BY ClaimsAssumption
<1>3. claims \subseteq Claim'
  BY <1>1, ClaimGrows DEF Inv
<1>4. \A b \in Approvals : travelType'[b] = Nil => b # a /\ ClaimsIn(b) = {}
  BY <1>1, <1>2 DEF Inv, OncePerApproval
<1>5. CASE update.team = Missing
  <2>1. claims' = claims
    BY <1>5 DEF Submit
  <2> QED BY <1>3, <1>4, <2>1 DEF ClaimsOK, Inv, TypeOK, OncePerApproval, Key, ClaimsIn
<1>6. CASE update.team # Missing
  <2> DEFINE new == {NewClaim(a, e, update.destination) : e \in update.team}
  <2>1. claims' = (claims \ ClaimsIn(a)) \cup new
    BY <1>6 DEF Submit
  <2>2. \A c \in new : /\ c \in Claim' /\ c.approval = a /\ c.batch = writes + 1
                       /\ c = NewClaim(a, c.employee, update.destination)
    BY <1>1, <1>2, <1>6, NewClaimType DEF NewClaim, Inv
  <2>3. \A c \in claims : c.batch <= writes
    BY KeyType DEF Inv
  <2>4. \A c \in claims \ ClaimsIn(a) : c.approval # a
    BY DEF ClaimsIn
  <2>5. ASSUME NEW c \in claims', NEW d \in claims',
               Key(c) = Key(d) \/ (c.approval = d.approval /\ c.employee = d.employee)
        PROVE  c = d
    <3>1. CASE c \in new /\ d \in new
      BY <2>2, <2>5, <3>1 DEF Key
    <3>2. CASE c \in claims \ ClaimsIn(a) /\ d \in claims \ ClaimsIn(a)
      BY <2>5, <3>2 DEF Inv, TypeOK, OncePerApproval
    <3>3. CASE c \in new /\ d \in claims \ ClaimsIn(a)
      BY <1>1, <2>2, <2>3, <2>4, <2>5, <3>3, KeyType DEF Key, Inv, Claim, TypeOK
    <3>4. CASE d \in new /\ c \in claims \ ClaimsIn(a)
      BY <1>1, <2>2, <2>3, <2>4, <2>5, <3>4, KeyType DEF Key, Inv, Claim, TypeOK
    <3> QED BY <2>1, <3>1, <3>2, <3>3, <3>4
  <2>6. \A b \in Approvals : travelType'[b] = Nil => ClaimsIn(b)' = {}
    BY <1>4, <2>1, <2>2 DEF ClaimsIn
  <2>7. claims' \subseteq Claim'
    BY <1>3, <2>1, <2>2
  <2> QED BY <2>5, <2>6, <2>7 DEF ClaimsOK, OncePerApproval, Key
<1> QED BY <1>5, <1>6

(* A copy takes over one claim for an employee at most. *)
LEMMA DuplicateClaims ==
    ASSUME Inv, NEW b \in Approvals, Duplicate(b)
    PROVE  ClaimsOK'
<1> DEFINE Copy(c) == [c EXCEPT !.batch = writes + 1, !.approval = b, !.created = today]
           new == {Copy(c) : c \in Shown}
<1>1. /\ writes \in Nat /\ writes' = writes + 1 /\ today \in Days
      /\ travelType' = [travelType EXCEPT ![b] = found.kind]
      /\ travelType \in [Approvals -> Kinds \cup {"other", Nil}]
      /\ found.kind # Nil /\ travelType[b] = Nil
  <2>1. writes \in Nat /\ today \in Days /\ travelType \in [Approvals -> Kinds \cup {"other", Nil}]
    BY DEF Inv, TypeOK
  <2>2. writes' = writes + 1
    BY DEF Duplicate, Writes
  <2>3. found # Nil /\ travelType[b] = Nil
    BY DEF Duplicate
  <2>4. found.kind # Nil
    BY <2>3, ClaimsAssumption DEF Inv, TypeOK
  <2>5. travelType' = [travelType EXCEPT ![b] = found.kind]
    BY DEF Duplicate
  <2> QED BY <2>1, <2>2, <2>3, <2>4, <2>5
<1>2. claims' = claims \cup new
  BY DEF Duplicate, Shown
<1>3. ClaimsIn(b) = {} /\ Shown \subseteq Claim
  BY <1>1 DEF Inv, TypeOK, OncePerApproval
<1>4. claims \subseteq Claim' /\ claims \subseteq Claim
  BY <1>1, ClaimGrows DEF Inv, TypeOK
<1>5. \A c \in Shown : /\ Copy(c) \in Claim' /\ Copy(c).approval = b
                       /\ Copy(c).batch = writes + 1 /\ Copy(c).employee = c.employee
  <2> SUFFICES ASSUME NEW c \in Shown
               PROVE  /\ Copy(c) \in Claim' /\ Copy(c).approval = b
                      /\ Copy(c).batch = writes + 1 /\ Copy(c).employee = c.employee
    OBVIOUS
  <2>1. c \in Claim /\ writes + 1 \in 1..writes'
    BY <1>1, <1>3
  <2> QED BY <1>1, <2>1 DEF Claim, Days
<1>6. \A c \in new : c.approval = b /\ c.batch = writes + 1
  BY <1>5
<1>7. \A c \in claims : c.batch <= writes /\ c.batch \in Nat /\ c.approval # b
  <2>1. \A c \in claims : c.batch <= writes /\ c.batch \in Nat
    BY <1>1, <1>4 DEF Claim
  <2> QED BY <1>3, <2>1 DEF ClaimsIn
<1>8. ASSUME NEW c \in claims', NEW d \in claims',
             Key(c) = Key(d) \/ (c.approval = d.approval /\ c.employee = d.employee)
      PROVE  c = d
  <2>1. CASE c \in new /\ d \in new
    <3>1. PICK x \in Shown : c = Copy(x)
      BY <2>1
    <3>2. PICK y \in Shown : d = Copy(y)
      BY <2>1
    <3>3. x.employee = y.employee
      BY <1>5, <1>8, <3>1, <3>2 DEF Key
    <3>4. x = y
      BY <3>3 DEF Inv, OncePerDetail
    <3> QED BY <3>1, <3>2, <3>4
  <2>2. CASE c \in claims /\ d \in claims
    BY <1>8, <2>2 DEF Inv, TypeOK, OncePerApproval
  <2>3. CASE c \in new /\ d \in claims
    <3>1. c.batch = writes + 1 /\ c.approval = b
      BY <1>6, <2>3
    <3>2. d.batch <= writes /\ d.batch \in Nat /\ d.approval # b
      BY <1>7, <2>3
    <3>3. Key(c) # Key(d)
      BY <1>1, <3>1, <3>2 DEF Key
    <3> QED BY <1>8, <3>1, <3>2, <3>3
  <2>4. CASE d \in new /\ c \in claims
    <3>1. d.batch = writes + 1 /\ d.approval = b
      BY <1>6, <2>4
    <3>2. c.batch <= writes /\ c.batch \in Nat /\ c.approval # b
      BY <1>7, <2>4
    <3>3. Key(c) # Key(d)
      BY <1>1, <3>1, <3>2 DEF Key
    <3> QED BY <1>8, <3>1, <3>2, <3>3
  <2> QED BY <1>2, <2>1, <2>2, <2>3, <2>4
<1>9. \A e \in Approvals : travelType'[e] = Nil => ClaimsIn(e)' = {}
  BY <1>1, <1>2, <1>6 DEF ClaimsIn, Inv, OncePerApproval
<1>10. claims' \subseteq Claim'
  BY <1>4, <1>5, <1>2
<1> QED BY <1>8, <1>9, <1>10 DEF ClaimsOK, OncePerApproval, Key

(* A claim added by hand is the only one of its employee in the approval. *)
LEMMA AddedClaim ==
    ASSUME Inv, NEW a \in Approvals, NEW e \in Employees, NEW body \in ByHand, AddClaim(a, e, body)
    PROVE  /\ ClaimsOK'
           /\ \A c \in claims' \ claims :
                 /\ c.batch = writes + 1 /\ c.approval = a /\ c.employee = e /\ c.created = today
                 /\ c.reporting = Given(body.reporting, Nil) /\ c.next = Given(body.next, Nil)
           /\ \E c \in claims' \ claims : c.approval = a /\ c.employee = e
<1> DEFINE new == [NewClaim(a, e, Nil) EXCEPT !.reporting = Given(body.reporting, Nil),
                                              !.next = Given(body.next, Nil)]
<1>1. /\ claims' = claims \cup {new} /\ writes' = writes + 1 /\ travelType' = travelType
      /\ travelType[a] # Nil /\ \A c \in ClaimsIn(a) : c.employee # e
  BY DEF AddClaim, Writes
<1>2. Given(body.reporting, Nil) \in Int \cup {Nil} /\ Given(body.next, Nil) \in Int \cup {Nil}
  BY ClaimsAssumption DEF Given
<1>3. /\ new \in Claim' /\ new.batch = writes + 1 /\ new.approval = a /\ new.employee = e
      /\ new.created = today
      /\ new.reporting = Given(body.reporting, Nil) /\ new.next = Given(body.next, Nil)
  <2>1. /\ NewClaim(a, e, Nil) \in Claim'
        /\ NewClaim(a, e, Nil).batch = writes + 1 /\ NewClaim(a, e, Nil).approval = a
        /\ NewClaim(a, e, Nil).employee = e /\ NewClaim(a, e, Nil).created = today
    BY <1>1, NewClaimType DEF NewClaim, Inv
  <2> QED BY <1>2, <2>1 DEF Claim
<1>4. \A c \in claims : c \in Claim' /\ c.batch <= writes /\ c.batch \in Nat /\ writes \in Nat
  BY <1>1, ClaimGrows DEF Inv, TypeOK, Claim
<1> HIDE DEF new
<1>5. new \notin claims
  BY <1>3, <1>4
<1>6. ASSUME NEW c \in claims
      PROVE  Key(c) # Key(new) /\ ~ (c.approval = new.approval /\ c.employee = new.employee)
  <2>1. c.batch # new.batch
    BY <1>3, <1>4
  <2> QED BY <1>1, <1>3, <2>1 DEF Key, ClaimsIn
<1>7. ASSUME NEW c \in claims', NEW d \in claims',
             Key(c) = Key(d) \/ (c.approval = d.approval /\ c.employee = d.employee)
      PROVE  c = d
  <2>1. CASE c \in claims /\ d \in claims
    BY <1>7, <2>1 DEF Inv, TypeOK, OncePerApproval
  <2> QED BY <1>1, <1>6, <1>7, <2>1
<1>8. \A b \in Approvals : travelType'[b] = Nil => ClaimsIn(b)' = {}
  BY <1>1, <1>3 DEF ClaimsIn, Inv, OncePerApproval
<1>9. claims' \subseteq Claim'
  BY <1>1, <1>3, <1>4
<1>10. ClaimsOK'
  BY <1>7, <1>8, <1>9 DEF ClaimsOK, OncePerApproval, Key
<1> QED BY <1>1, <1>3, <1>5, <1>10

(* Fewer claims are as good. *)
LEMMA FewerClaims ==
    ASSUME ClaimsOK, claims' \subseteq claims, travelType' = travelType,
           Claim \subseteq Claim'
    PROVE  ClaimsOK'
BY DEF ClaimsOK, OncePerApproval, Key, ClaimsIn

(* So are claims with other dates. *)
LEMMA DatedClaims ==
    ASSUME ClaimsOK, travelType' = travelType,
           NEW dated, claims' = {dated[c] : c \in claims},
           \A c \in claims : /\ dated[c] \in Claim'
                             /\ Key(dated[c]) = Key(c)
                             /\ dated[c].approval = c.approval
                             /\ dated[c].employee = c.employee
    PROVE  ClaimsOK'
<1>1. ASSUME NEW x \in claims', NEW y \in claims',
             Key(x) = Key(y) \/ (x.approval = y.approval /\ x.employee = y.employee)
      PROVE  x = y
  <2>1. PICK c \in claims : x = dated[c]
    OBVIOUS
  <2>2. PICK d \in claims : y = dated[d]
    OBVIOUS
  <2>3. Key(c) = Key(d) \/ (c.approval = d.approval /\ c.employee = d.employee)
    BY <1>1, <2>1, <2>2
  <2> QED BY <2>1, <2>2, <2>3 DEF ClaimsOK, OncePerApproval
<1>2. \A a \in Approvals : travelType'[a] = Nil => ClaimsIn(a)' = {}
  BY DEF ClaimsOK, OncePerApproval, ClaimsIn
<1>3. claims' \subseteq Claim'
  OBVIOUS
<1> QED BY <1>1, <1>2, <1>3 DEF ClaimsOK, OncePerApproval, Key

-----------------------------------------------------------------------------
(* Type correctness *)

(* Nothing is claimed at first. *)
LEMMA InitInv == Init => Inv
BY ClaimsAssumption DEF Init, Inv, TypeOK, OncePerApproval, OncePerDetail, Shown, HandsOnPast, ClaimsIn,
   Idle, InHand, Days, Keys, Claim

(* What the job has in hand is a set of keys, none of them Nil. *)
LEMMA InHandType ==
    ASSUME Inv
    PROVE  /\ InHand \subseteq Keys
           /\ Nil \notin Keys
           /\ current # Idle => current.key \in InHand
BY ClaimsAssumption DEF Inv, TypeOK, InHand, Keys, Idle

(* Requests that write leave the job alone, but for what it must not write
   over. *)
LEMMA RequestInv ==
    ASSUME Inv, Writes, ClaimsOK', UNCHANGED <<today, found, duty, left, current>>,
           entered' \subseteq InHand,
           travelType' \in [Approvals -> Kinds \cup {"other", Nil}],
           deleted' \subseteq Approvals, raw' \subseteq Approvals
    PROVE  Inv'
<1>1. InHand' = InHand /\ Shown' = Shown
  BY DEF InHand, Shown
<1>2. writes \in 0..MaxWrites /\ writes' = writes + 1 /\ writes' \in 0..MaxWrites
  BY ClaimsAssumption DEF Writes, Inv, TypeOK
<1>3. Shown' \subseteq Claim'
  BY <1>1, <1>2 DEF Inv, TypeOK, Claim
<1>4. TypeOK'
  BY <1>1, <1>2, <1>3 DEF Inv, TypeOK, ClaimsOK, Key
<1>5. HandsOnPast'
  <2>1. \A key \in InHand : key[1] \in Nat
    BY InHandType DEF Keys
  <2> QED BY <1>1, <1>2, <2>1 DEF Inv, HandsOnPast
<1> QED BY <1>1, <1>4, <1>5 DEF Inv, ClaimsOK, OncePerDetail

(* What is given are dates, or nothing. *)
LEMMA EnterClaims ==
    ASSUME Inv, NEW a \in Approvals, NEW body \in Bodies, EnterDates(a, body)
    PROVE  ClaimsOK' /\ entered' \subseteq InHand
<1> DEFINE dated == [c \in claims |->
               IF c.approval = a
               THEN [c EXCEPT !.reporting = Given(body.reporting, @), !.next = Given(NextOf(body), @)]
               ELSE c]
<1>1. claims' = {dated[c] : c \in claims}
  BY DEF EnterDates
<1>2. body.reporting \in Int \cup {Missing, Nil} /\ body.next \in Int \cup {Missing, Nil}
  BY ClaimsAssumption
<1>3. NextOf(body) \in Int \cup {Missing, Nil}
  BY <1>2, ClaimsAssumption DEF NextOf, NextClaimDate
<1>4. writes \in Nat /\ writes' = writes + 1 /\ travelType' = travelType
  <2>1. Writes /\ travelType' = travelType
    BY DEF EnterDates
  <2> QED BY <2>1 DEF Writes, Inv, TypeOK
<1>5. claims \subseteq Claim'
  BY <1>4, ClaimGrows DEF Inv
<1>6. ASSUME NEW c \in claims
      PROVE  /\ dated[c] \in Claim' /\ Key(dated[c]) = Key(c)
             /\ dated[c].approval = c.approval /\ dated[c].employee = c.employee
  <2>1. /\ Given(body.reporting, c.reporting) \in Int \cup {Nil}
        /\ Given(NextOf(body), c.next) \in Int \cup {Nil}
    BY <1>2, <1>3, <1>5 DEF Claim, Given
  <2> QED BY <1>5, <2>1 DEF Claim, Key
<1>7. ClaimsOK'
  BY <1>1, <1>4, <1>6, DatedClaims DEF Inv, TypeOK, ClaimsOK
<1>8. entered' \subseteq InHand
  BY DEF EnterDates, Inv, TypeOK
<1> QED BY <1>7, <1>8

LEMMA AmendedClaims ==
    ASSUME Inv, NEW x \in claims, NEW body \in ByHand, AmendClaim(x, body)
    PROVE  ClaimsOK' /\ entered' \subseteq InHand
<1> DEFINE amended == [x EXCEPT !.reporting = Given(body.reporting, @), !.next = Given(body.next, @)]
           dated == [c \in claims |-> IF c = x THEN amended ELSE c]
<1>1. claims' = {dated[c] : c \in claims}
  BY DEF AmendClaim
<1>2. writes \in Nat /\ writes' = writes + 1 /\ travelType' = travelType
  <2>1. Writes /\ travelType' = travelType
    BY DEF AmendClaim
  <2> QED BY <2>1 DEF Writes, Inv, TypeOK
<1>3. claims \subseteq Claim'
  BY <1>2, ClaimGrows DEF Inv
<1>4. /\ amended \in Claim' /\ Key(amended) = Key(x)
      /\ amended.approval = x.approval /\ amended.employee = x.employee
  <2>1. /\ Given(body.reporting, x.reporting) \in Int \cup {Nil}
        /\ Given(body.next, x.next) \in Int \cup {Nil}
    BY <1>3, ClaimsAssumption DEF Claim, Given
  <2> QED BY <1>3, <2>1 DEF Claim, Key
<1> HIDE DEF amended
<1>5. \A c \in claims : /\ dated[c] \in Claim' /\ Key(dated[c]) = Key(c)
                        /\ dated[c].approval = c.approval /\ dated[c].employee = c.employee
  BY <1>3, <1>4
<1>6. ClaimsOK'
  BY <1>1, <1>2, <1>5, DatedClaims DEF Inv, TypeOK, ClaimsOK
<1>7. entered' \subseteq InHand
  BY DEF AmendClaim, Inv, TypeOK
<1> QED BY <1>6, <1>7

(* What a detail shows is one claim for an employee, for an approval has no
   more; and nobody but findById and the clock touches it. *)
LEMMA DetailInv ==
    ASSUME Inv, (\E a \in Approvals : Find(a)) \/ Expire
    PROVE  Inv'
<1>1. UNCHANGED <<today, travelType, deleted, claims, writes, duty, left, current, entered>>
  BY DEF Find, Expire, table, job
<1>2. raw' \subseteq Approvals
  BY DEF Find, Expire, Inv, TypeOK
<1>3. /\ Shown' \subseteq Claim /\ OncePerDetail'
      /\ found' # Nil => found'.of \in Approvals /\ found'.kind \in Kinds \cup {"other"}
  <2>1. CASE found' = found
    BY <2>1 DEF Inv, TypeOK, OncePerDetail, Shown
  <2>2. CASE found' = Nil
    BY <2>2 DEF OncePerDetail, Shown
  <2>3. ASSUME NEW a \in Approvals, Find(a)
        PROVE  /\ found'.of = a /\ found'.kind \in Kinds \cup {"other"}
               /\ found'.claims \subseteq ClaimsIn(a)
    <3>1. travelType[a] \in Kinds \cup {"other"}
      BY <2>3 DEF Find, Inv, TypeOK
    <3> QED BY <2>3, <3>1 DEF Find
  <2>4. ASSUME NEW a \in Approvals PROVE /\ ClaimsIn(a) \subseteq Claim
                                         /\ \A c, d \in ClaimsIn(a) : c.employee = d.employee => c = d
    BY DEF Inv, TypeOK, OncePerApproval, ClaimsIn
  <2>5. CASE \E a \in Approvals : Find(a)
    <3>1. PICK a \in Approvals : Find(a)
      BY <2>5
    <3>2. Shown' \subseteq ClaimsIn(a)
      BY <2>3, <3>1 DEF Shown
    <3> QED BY <2>3, <2>4, <3>1, <3>2 DEF OncePerDetail
  <2> QED BY <2>1, <2>2, <2>5 DEF Expire
<1>4. Claim' = Claim /\ InHand' = InHand
  BY <1>1 DEF Claim, InHand
<1> QED BY <1>1, <1>2, <1>3, <1>4 DEF Inv, TypeOK, OncePerApproval, HandsOnPast, ClaimsIn, Key

(* Every step keeps the types, the keys and what the job has in hand. *)
LEMMA NextInv ==
    ASSUME Inv, [Next]_vars
    PROVE  Inv'
<1>1. CASE Midnight
  BY <1>1, ClaimsAssumption DEF Midnight, Inv, TypeOK, OncePerApproval, OncePerDetail,
     Shown, HandsOnPast, ClaimsIn, InHand, Days, Keys, Claim, Key, table, details, job
<1>2. ASSUME NEW e \in Employees, Report(e) PROVE Inv'
  <2>1. duty' \in [Employees -> DutyDays \cup {Invalid, Nil}]
    BY <1>2 DEF Report, Inv, TypeOK
  <2>2. UNCHANGED <<today, travelType, deleted, claims, writes, found, raw, left, current, entered>>
    BY <1>2 DEF Report, table, details, job
  <2> QED BY <2>1, <2>2 DEF Inv, TypeOK, OncePerApproval, OncePerDetail, Shown, HandsOnPast,
      ClaimsIn, InHand, Claim, Key
<1>3. ASSUME NEW a \in Approvals, NEW update \in Submissions, Submit(a, update) PROVE Inv'
  <2>1. update.kind \in Kinds \cup {"other"}
    BY ClaimsAssumption
  <2>2. travelType' \in [Approvals -> Kinds \cup {"other", Nil}]
    BY <1>3, <2>1 DEF Submit, Inv, TypeOK
  <2>3. UNCHANGED <<today, found, duty, left, current, entered, deleted>> /\ Writes /\ raw' \subseteq Approvals
    BY <1>3 DEF Submit, job, Inv, TypeOK
  <2> QED BY <1>3, <2>2, <2>3, SubmitClaims, RequestInv DEF Inv, TypeOK
<1>4. ASSUME NEW b \in Approvals, Duplicate(b) PROVE Inv'
  <2>1. found.kind \in Kinds \cup {"other"}
    BY <1>4 DEF Duplicate, Inv, TypeOK
  <2>2. travelType' \in [Approvals -> Kinds \cup {"other", Nil}]
    BY <1>4, <2>1 DEF Duplicate, Inv, TypeOK
  <2>3. /\ UNCHANGED <<today, found, duty, left, current, entered, deleted>> /\ Writes
        /\ raw' \subseteq Approvals
    BY <1>4 DEF Duplicate, job, Inv, TypeOK
  <2> QED BY <1>4, <2>2, <2>3, DuplicateClaims, RequestInv DEF Inv, TypeOK
<1>5. ASSUME NEW a \in Approvals, SoftDelete(a) PROVE Inv'
  <2>1. /\ UNCHANGED <<today, found, duty, left, current, entered, travelType, claims>>
        /\ Writes /\ deleted' \subseteq Approvals /\ raw' \subseteq Approvals
    BY <1>5 DEF SoftDelete, job, Inv, TypeOK
  <2>2. ClaimsOK'
    BY <2>1, ClaimGrows DEF Inv, TypeOK, ClaimsOK, OncePerApproval, Key, ClaimsIn, Writes
  <2> QED BY <2>1, <2>2, RequestInv DEF Inv, TypeOK
<1>6. ASSUME NEW a \in Approvals, NEW team \in SUBSET Employees, CancelClaims(a, team) PROVE Inv'
  <2>1. /\ UNCHANGED <<today, found, raw, duty, left, current, entered, travelType, deleted>>
        /\ Writes /\ claims' \subseteq claims
    BY <1>6 DEF CancelClaims, details, job
  <2>2. ClaimsOK'
    BY <2>1, ClaimGrows DEF Inv, TypeOK, ClaimsOK, OncePerApproval, Key, ClaimsIn, Writes
  <2> QED BY <2>1, <2>2, RequestInv DEF Inv, TypeOK
<1>7. ASSUME NEW a \in Approvals, NEW body \in Bodies, EnterDates(a, body) PROVE Inv'
  <2>1. /\ UNCHANGED <<today, found, duty, left, current, travelType, deleted>> /\ Writes
        /\ raw' \subseteq Approvals
    BY <1>7 DEF EnterDates, Inv, TypeOK
  <2> QED BY <1>7, <2>1, EnterClaims, RequestInv DEF Inv, TypeOK
<1>8. CASE FindPending
  <2>1. left' \subseteq Keys /\ \A key \in left' : key[1] <= writes /\ key # Nil
    BY <1>8, KeyType DEF FindPending, Inv, Key
  <2>2. current = Idle /\ current.key = Nil /\ InHand = {} /\ entered = {}
    BY <1>8 DEF FindPending, Inv, TypeOK, InHand, Idle
  <2>3. UNCHANGED <<today, travelType, deleted, claims, writes, found, raw, duty, current, entered>>
    BY <1>8 DEF FindPending, table, details
  <2>4. InHand' = left'
    BY <2>2, <2>3 DEF InHand
  <2> QED BY <2>1, <2>2, <2>3, <2>4
      DEF Inv, TypeOK, OncePerApproval, OncePerDetail, Shown, HandsOnPast, ClaimsIn, Claim
<1>9. ASSUME NEW key \in Keys, FindDuty(key) PROVE Inv'
  <2>1. UNCHANGED <<today, travelType, deleted, claims, writes, found, raw, duty>>
    BY <1>9 DEF FindDuty, table, details
  <2>2. /\ key \in left /\ left' = left \ {key} /\ left \subseteq InHand
        /\ current = Idle /\ entered' = entered \cap InHand'
    BY <1>9 DEF FindDuty, InHand
  <2>3. /\ current' = Idle \/ current' = [key |-> key, day |-> duty[key[2]]]
        /\ current' # Idle => duty[key[2]] # Nil
    BY <1>9 DEF FindDuty
  <2>4. current' = Idle \/ current' \in [key : Keys, day : DutyDays \cup {Invalid}]
    BY <2>3 DEF Inv, TypeOK, Keys
  <2>5. InHand' \subseteq left /\ current'.key \notin left'
    BY <2>2, <2>3, InHandType DEF InHand, Idle, Inv, TypeOK
  <2> QED BY <2>1, <2>2, <2>4, <2>5
      DEF Inv, TypeOK, OncePerApproval, OncePerDetail, Shown, HandsOnPast, ClaimsIn, Claim
<1>10. ASSUME NEW key \in Keys, CopyReportDate(key) PROVE Inv'
  <2> DEFINE dated == [c \in claims |->
          IF Key(c) = key THEN [c EXCEPT !.reporting = current.day, !.next = NextClaimDate(current.day)]
          ELSE c]
  <2>1. UNCHANGED <<today, travelType, deleted, writes, found, raw, duty, left>>
    BY <1>10 DEF CopyReportDate, details
  <2>2. current.day \in Int /\ NextClaimDate(current.day) \in Int
    <3>1. current.key = key /\ key # Nil /\ current.day # Invalid
      BY <1>10, InHandType DEF CopyReportDate
    <3>2. current # Idle
      BY <3>1 DEF Idle
    <3>3. current.day \in Int
      BY <3>1, <3>2, ClaimsAssumption DEF Inv, TypeOK
    <3> QED BY <3>3, ClaimsAssumption DEF NextClaimDate
  <2>3. claims' = {dated[c] : c \in claims}
    BY <1>10 DEF CopyReportDate
  <2>4. \A c \in claims : /\ dated[c] \in Claim /\ Key(dated[c]) = Key(c)
                          /\ dated[c].approval = c.approval /\ dated[c].employee = c.employee
    <3> SUFFICES ASSUME NEW c \in claims
                 PROVE  /\ dated[c] \in Claim /\ Key(dated[c]) = Key(c)
                        /\ dated[c].approval = c.approval /\ dated[c].employee = c.employee
      OBVIOUS
    <3>1. c \in Claim
      BY DEF Inv, TypeOK
    <3>2. CASE Key(c) = key
      <4>1. dated[c] = [c EXCEPT !.reporting = current.day, !.next = NextClaimDate(current.day)]
        BY <3>2
      <4> QED BY <2>2, <3>1, <4>1 DEF Claim, Key
    <3>3. CASE Key(c) # key
      BY <3>1, <3>3
    <3> QED BY <3>2, <3>3
  <2>5. Claim' = Claim
    BY <2>1 DEF Claim
  <2>6. ClaimsOK'
    BY <2>1, <2>3, <2>4, <2>5, DatedClaims DEF Inv, TypeOK, ClaimsOK
  <2>7. current' = Idle /\ InHand' = left /\ left \subseteq InHand /\ entered' = entered \cap left
    BY <1>10, <2>1 DEF CopyReportDate, InHand, Idle
  <2>8. Nil \notin left
    BY InHandType DEF InHand
  <2> QED BY <2>1, <2>5, <2>6, <2>7, <2>8
      DEF Inv, TypeOK, ClaimsOK, OncePerDetail, Shown, HandsOnPast, Key, Idle
<1>11. CASE Fail
  <2>1. /\ UNCHANGED <<today, travelType, deleted, claims, found, raw, duty, left>>
        /\ writes' = writes \/ Writes
    BY <1>11 DEF Fail, Broken, details
  <2>2. writes \in 0..MaxWrites /\ writes' \in 0..MaxWrites /\ writes <= writes'
    BY <2>1, ClaimsAssumption DEF Writes, Inv, TypeOK
  <2>3. Claim \subseteq Claim'
    BY <2>1, <2>2 DEF Claim
  <2>4. ClaimsOK'
    BY <2>1, <2>3, FewerClaims DEF Inv, TypeOK, ClaimsOK
  <2>5. current' = Idle /\ InHand' = left /\ left \subseteq InHand /\ entered' = entered \cap left
    BY <1>11, <2>1 DEF Fail, InHand, Idle
  <2>6. Nil \notin left /\ \A key \in left : key[1] \in Nat
    BY InHandType DEF InHand, Keys
  <2> QED BY <2>1, <2>2, <2>3, <2>4, <2>5, <2>6
      DEF Inv, TypeOK, ClaimsOK, OncePerDetail, Shown, HandsOnPast, Key, Idle
<1>12. ASSUME NEW a \in Approvals, NEW e \in Employees, NEW body \in ByHand, AddClaim(a, e, body)
       PROVE  Inv'
  <2>1. UNCHANGED <<today, found, raw, duty, left, current, entered, travelType, deleted>> /\ Writes
    BY <1>12 DEF AddClaim, details, job
  <2> QED BY <1>12, <2>1, AddedClaim, RequestInv DEF Inv, TypeOK
<1>13. ASSUME NEW c \in claims, NEW body \in ByHand, AmendClaim(c, body) PROVE Inv'
  <2>1. UNCHANGED <<today, found, raw, duty, left, current, travelType, deleted>> /\ Writes
    BY <1>13 DEF AmendClaim, details
  <2> QED BY <1>13, <2>1, AmendedClaims, RequestInv DEF Inv, TypeOK
<1>14. CASE Expire \/ \E a \in Approvals : Find(a)
  BY <1>14, DetailInv
<1>15. CASE UNCHANGED vars
  BY <1>15 DEF vars, table, details, job, Inv, TypeOK, OncePerApproval, OncePerDetail, Shown,
     HandsOnPast, ClaimsIn, InHand, Claim, Key
<1> QED BY <1>1, <1>2, <1>3, <1>4, <1>5, <1>6, <1>7, <1>8, <1>9, <1>10, <1>11, <1>12, <1>13,
    <1>14, <1>15 DEF Next, JobStep

(* Types, and keys of their own, whatever is submitted, copied and dated. *)
THEOREM TypeCorrect == Spec => []TypeOK
<1>1. Inv => TypeOK
  BY DEF Inv
<1> QED BY <1>1, InitInv, NextInv, PTL DEF Spec

-----------------------------------------------------------------------------
(* The nightly job *)

(* The property in terms of what the job has in hand. *)
Kept == \A c \in claims : Key(c) \in InHand /\ c.reporting # Nil => Key(c) \in entered

LEMMA KeptIsKept == ASSUME Inv PROVE Kept <=> JobKeepsEarlierDates
BY KeyType DEF Kept, JobKeepsEarlierDates, InHand, Inv

(* A request that leaves the job alone inserts claims the job has not seen,
   or changes no date. *)
LEMMA UnseenKept ==
    ASSUME Inv, Kept, InHand' = InHand, entered' = entered,
           \A c \in claims' : c \in claims \/ c.batch = writes + 1
    PROVE  Kept'
<1>1. \A c \in claims' : c.batch = writes + 1 => Key(c) \notin InHand
  BY DEF Inv, TypeOK, HandsOnPast, Key
<1> QED BY <1>1 DEF Kept, Key

(* No step of anyone makes the job write over an earlier date. *)
LEMMA NextKept ==
    ASSUME Inv, Inv', Kept, [Next]_vars
    PROVE  Kept'
<1>1. ASSUME UNCHANGED <<claims, left, current, entered>> PROVE Kept'
  BY <1>1 DEF Kept, InHand, Key
<1>2. ASSUME NEW a \in Approvals, NEW update \in Submissions, Submit(a, update) PROVE Kept'
  <2>1. InHand' = InHand /\ entered' = entered
    BY <1>2 DEF Submit, job, InHand
  <2>2. \A c \in claims' : c \in claims \/ c.batch = writes + 1
    BY <1>2 DEF Submit, NewClaim
  <2> QED BY <2>1, <2>2, UnseenKept
<1>3. ASSUME NEW b \in Approvals, Duplicate(b) PROVE Kept'
  <2>1. InHand' = InHand /\ entered' = entered
    BY <1>3 DEF Duplicate, job, InHand
  <2>2. \A c \in claims' : c \in claims \/ c.batch = writes + 1
    <3>1. ASSUME NEW c \in Shown
          PROVE  [c EXCEPT !.batch = writes + 1, !.approval = b, !.created = today].batch = writes + 1
      BY DEF Inv, TypeOK, Claim
    <3> QED BY <1>3, <3>1 DEF Duplicate, Shown
  <2> QED BY <2>1, <2>2, UnseenKept
<1>4. ASSUME NEW a \in Approvals, NEW team \in SUBSET Employees, CancelClaims(a, team) PROVE Kept'
  <2>1. InHand' = InHand /\ entered' = entered /\ claims' \subseteq claims
    BY <1>4 DEF CancelClaims, job, InHand
  <2> QED BY <2>1, UnseenKept
<1>5. ASSUME NEW a \in Approvals, NEW body \in Bodies, EnterDates(a, body) PROVE Kept'
  <2>1. /\ InHand' = InHand
        /\ entered' = entered \cup ({Key(c) : c \in ClaimsIn(a)} \cap InHand)
    BY <1>5 DEF EnterDates, InHand
  <2>2. ASSUME NEW d \in claims' PROVE d \in claims \/ \E c \in ClaimsIn(a) : Key(d) = Key(c)
    <3>1. PICK c \in claims : d = IF c.approval = a
                  THEN [c EXCEPT !.reporting = Given(body.reporting, @), !.next = Given(NextOf(body), @)]
                  ELSE c
      BY <1>5, <2>2 DEF EnterDates
    <3>2. c \in Claim
      BY DEF Inv, TypeOK
    <3> QED BY <3>1, <3>2 DEF ClaimsIn, Key, Claim
  <2> QED BY <2>1, <2>2 DEF Kept, Key
<1>6. CASE FindPending
  <2>1. claims' = claims /\ current' = current /\ current.key = Nil
    BY <1>6 DEF FindPending, table, Idle
  <2>2. InHand' = {Key(c) : c \in {d \in claims : d.reporting = Nil}}
    BY <1>6, <2>1, KeyType DEF FindPending, InHand, Inv
  <2> QED BY <2>1, <2>2 DEF Kept, Inv, TypeOK, Key
<1>7. ASSUME NEW key \in Keys, FindDuty(key) PROVE Kept'
  <2>1. claims' = claims /\ entered' = entered \cap InHand'
    BY <1>7 DEF FindDuty, table
  <2>2. InHand' \subseteq InHand
    BY <1>7 DEF FindDuty, InHand, Idle
  <2> QED BY <2>1, <2>2 DEF Kept, Key
<1>8. ASSUME NEW key \in Keys, CopyReportDate(key) PROVE Kept'
  <2>1. /\ current.key = key /\ key \notin left
        /\ left' = left /\ current' = Idle /\ entered' = entered \cap left
    BY <1>8 DEF CopyReportDate, Inv, HandsOnPast
  <2>2. InHand' = left /\ left \subseteq InHand
    BY <2>1 DEF InHand, Idle
  <2>3. ASSUME NEW d \in claims' PROVE d \in claims \/ Key(d) = key
    <3>1. PICK c \in claims :
              d = IF Key(c) = key
                  THEN [c EXCEPT !.reporting = current.day, !.next = NextClaimDate(current.day)]
                  ELSE c
      BY <1>8, <2>3 DEF CopyReportDate
    <3>2. c \in Claim
      BY DEF Inv, TypeOK
    <3> QED BY <3>1, <3>2 DEF Key, Claim
  <2> QED BY <2>1, <2>2, <2>3 DEF Kept, Key
<1>9. CASE Fail
  <2>1. claims' = claims /\ left' = left /\ current' = Idle /\ entered' = entered \cap left
    BY <1>9 DEF Fail
  <2>2. InHand' = left /\ left \subseteq InHand
    BY <2>1 DEF InHand, Idle
  <2> QED BY <2>1, <2>2 DEF Kept, Key
<1>10. CASE Midnight
  BY <1>1, <1>10 DEF Midnight, table, details, job
<1>11. ASSUME NEW e \in Employees, Report(e) PROVE Kept'
  BY <1>1, <1>11 DEF Report, table, job
<1>12. ASSUME NEW a \in Approvals, SoftDelete(a) PROVE Kept'
  BY <1>1, <1>12 DEF SoftDelete, job
<1>13. ASSUME NEW a \in Approvals, NEW e \in Employees, NEW body \in ByHand, AddClaim(a, e, body)
       PROVE  Kept'
  <2>1. InHand' = InHand /\ entered' = entered
    BY <1>13 DEF AddClaim, job, InHand
  <2> QED BY <1>13, <2>1, AddedClaim, UnseenKept
<1>14. ASSUME NEW x \in claims, NEW body \in ByHand, AmendClaim(x, body) PROVE Kept'
  <2> DEFINE amended == [x EXCEPT !.reporting = Given(body.reporting, @), !.next = Given(body.next, @)]
  <2>1. InHand' = InHand /\ entered' = entered \cup ({Key(x)} \cap InHand)
    BY <1>14 DEF AmendClaim, InHand
  <2>2. claims' = (claims \ {x}) \cup {amended}
    BY <1>14 DEF AmendClaim
  <2>3. Key(amended) = Key(x)
    <3>1. x \in Claim
      BY DEF Inv, TypeOK
    <3> QED BY <3>1 DEF Key, Claim
  <2> HIDE DEF amended
  <2> QED BY <2>1, <2>2, <2>3 DEF Kept, Key
<1>15. CASE Expire \/ (\E a \in Approvals : Find(a)) \/ UNCHANGED vars
  BY <1>1, <1>15 DEF Expire, Find, vars, table, job
<1> QED BY <1>2, <1>3, <1>4, <1>5, <1>6, <1>7, <1>8, <1>9, <1>10, <1>11, <1>12, <1>13, <1>14, <1>15
    DEF Next, JobStep

(* The nightly job (copyReportDate) writes over no report that stood before it
   looked, or that was copied, added or resubmitted since, however requests and
   nights interleave: only over one that a clerk entered while it ran. *)
THEOREM EarlierDatesKept == Spec => []JobKeepsEarlierDates
<1>1. Init => Kept
  BY DEF Init, Kept
<1>2. Inv /\ Inv' /\ Kept /\ [Next]_vars => Kept'
  BY NextKept
<1>3. Inv /\ Kept => JobKeepsEarlierDates
  BY KeptIsKept
<1> QED BY <1>1, <1>2, <1>3, InitInv, NextInv, PTL DEF Spec

-----------------------------------------------------------------------------
(* Eligibility *)

(* Some claim of any is the newest. *)
LEMMA NewestIsOne ==
    ASSUME TypeOK, NEW some \in SUBSET claims, some # {}
    PROVE  Newest(some) \in some
<1> DEFINE ages == {writes - c.batch : c \in some}
<1>1. \A c \in some : c.batch \in 1..writes /\ writes \in Nat
  BY DEF TypeOK, Claim
<1>2. ages \subseteq Nat /\ ages # {}
  BY <1>1
<1>3. PICK age \in ages : \A other \in ages : <<other, age>> \notin OpToRel(<, Nat)
  BY <1>2, WFMin, NatLessThanWellFounded
<1>4. \A other \in ages : age <= other
  <2>1. OpToRel(<, Nat) = {pair \in Nat \X Nat : pair[1] < pair[2]}
    BY Zenon DEF OpToRel
  <2>2. ASSUME NEW other \in ages PROVE age <= other
    <3> DEFINE less == OpToRel(<, Nat)
    <3>1. <<other, age>> \notin less
      BY <1>3
    <3>2. less = {pair \in Nat \X Nat : pair[1] < pair[2]}
      BY <2>1
    <3>3. age \in Nat /\ other \in Nat
      BY <1>2, <1>3, Zenon
    <3> HIDE DEF less, ages
    <3> QED BY <3>1, <3>2, <3>3
  <2> QED BY <2>2, Zenon
<1>5. PICK c \in some : age = writes - c.batch
  BY <1>3
<1>6. ASSUME NEW d \in some PROVE d.batch <= c.batch
  <2>1. writes - d.batch \in ages
    OBVIOUS
  <2>2. writes - c.batch <= writes - d.batch
    BY <1>4, <1>5, <2>1
  <2> QED BY <1>1, <2>2
<1> QED BY <1>6 DEF Newest

(* What one night does to the answer. *)
LEMMA MidnightGrows ==
    ASSUME TypeOK, Midnight, NEW q, Eligible(q)
    PROVE  Eligible(q)'
<1> DEFINE same == {c \in ClaimsOf(q.employee) : travelType[c.approval] = q.kind}
<1>1. /\ today \in Int /\ today' = today + 1
      /\ travelType' = travelType /\ claims' = claims
  BY DEF Midnight, table, TypeOK, Days
<1>2. ASSUME PeriodIsOver(q) PROVE PeriodIsOver(q)'
  <2>1. CASE same = {}
    BY <1>1, <2>1 DEF PeriodIsOver, ClaimsOf
  <2>2. CASE same # {}
    <3>1. same \in SUBSET claims
      BY DEF ClaimsOf
    <3>2. Newest(same) \in claims
      BY <2>2, <3>1, NewestIsOne
    <3>3. Newest(same).next # Nil /\ today >= Newest(same).next
      BY <1>2, <2>2 DEF PeriodIsOver
    <3>4. Newest(same).next \in Int
      BY <3>2, <3>3 DEF TypeOK, Claim
    <3>5. today + 1 >= Newest(same).next
      BY <1>1, <3>3, <3>4
    <3> QED BY <1>1, <3>3, <3>5 DEF PeriodIsOver, ClaimsOf
  <2> QED BY <2>1, <2>2
<1>3. /\ ClaimsIn(q.approval)' = ClaimsIn(q.approval)
      /\ Comparable(q)' = Comparable(q) /\ LastClaimAllows(q)' = LastClaimAllows(q)
  BY <1>1 DEF ClaimsIn, Comparable, LastClaimAllows, ClaimsOf
<1> QED BY <1>2, <1>3 DEF Eligible

(* The rest of the steps change an answer by claims of the employee only. *)
LEMMA OthersLeaveAnswer ==
    ASSUME Next, ~ Midnight, NEW q, q.approval = Nil, Nil \notin {c.approval : c \in claims \cup claims'},
           Untouched(q.employee)
    PROVE  Eligible(q)' <=> Eligible(q)
<1>1. today' = today
  BY DEF Next, JobStep, FindPending, Fail, FindDuty, CopyReportDate, Expire, Report, Submit, Find,
     Duplicate, SoftDelete, CancelClaims, EnterDates, AddClaim, AmendClaim
<1>2. /\ ClaimsIn(q.approval) = {} /\ ClaimsIn(q.approval)' = {}
      /\ ClaimsOf(q.employee)' = ClaimsOf(q.employee)
  BY DEF ClaimsIn, Untouched
<1>3. PeriodIsOver(q)' <=> PeriodIsOver(q)
  <2> DEFINE same == {c \in ClaimsOf(q.employee) : travelType[c.approval] = q.kind}
  <2>1. same' = same
    BY <1>2 DEF Untouched
  <2> QED BY <1>1, <2>1 DEF PeriodIsOver
<1>4. Comparable(q)' <=> Comparable(q)
  BY <1>2 DEF Comparable
<1>5. LastClaimAllows(q)' <=> LastClaimAllows(q)
  BY <1>2 DEF LastClaimAllows
<1> QED BY <1>2, <1>3, <1>4, <1>5 DEF Eligible

(* What is done for others tells nobody anything about himself, and waiting
   costs nobody an eligibility (checkClothingExpenseEligibility). *)
THEOREM AnswersStayOwn == Spec => AnswersAreOwn
<1> DEFINE Own(q) == q.approval = Nil /\ Untouched(q.employee) =>
                         Eligible(q)' = Eligible(q) \/ (Midnight /\ Eligible(q)')
<1>1. ASSUME Inv, Inv', Next, NEW q \in Questions PROVE Own(q)
  <2> SUFFICES ASSUME q.approval = Nil, Untouched(q.employee)
               PROVE  Eligible(q)' = Eligible(q) \/ (Midnight /\ Eligible(q)')
    OBVIOUS
  <2>1. Eligible(q) \in BOOLEAN /\ Eligible(q)' \in BOOLEAN
    BY DEF Eligible
  <2>2. CASE Midnight
    <3>1. Eligible(q) => Eligible(q)'
      BY <1>1, <2>2, MidnightGrows DEF Inv
    <3> QED BY <2>1, <2>2, <3>1
  <2>3. CASE ~ Midnight
    <3>1. Nil \notin {c.approval : c \in claims \cup claims'}
      BY <1>1, ClaimsAssumption DEF Inv, TypeOK, Claim
    <3>2. Eligible(q)' <=> Eligible(q)
      BY <1>1, <2>3, <3>1, OthersLeaveAnswer
    <3> QED BY <2>1, <3>2
  <2> QED BY <2>2, <2>3
<1>2. Inv /\ Inv' /\ [Next]_vars => [\A q \in Questions : Own(q)]_vars
  BY <1>1
<1> QED BY <1>2, InitInv, NextInv, PTL DEF Spec, AnswersAreOwn
-----------------------------------------------------------------------------
(* The ledger of claims *)

(* The days on which an employee is, or was found, on duty, as the ledger sees
   them. *)
Known == [e \in Employees |->
             ({duty[e]} \cup (IF current # Idle /\ current.key[2] = e THEN {current.day} ELSE {}))
                 \cap DutyDays]

(* They are kept while nobody reports and the job holds on to what it has. *)
LEMMA SameKnown ==
    ASSUME UNCHANGED <<duty, current>> PROVE Known' = Known /\ Claiming!Forgets
BY DEF Known, Claiming!Forgets

LEMMA LetsGo ==
    ASSUME UNCHANGED duty, current' = Idle PROVE Claiming!Forgets
BY DEF Known, Claiming!Forgets

(* Claims inserted by one request for one approval, which had none or lost
   them, are what the ledger inserts. *)
LEMMA TogetherInserted ==
    ASSUME Inv, Inv', writes' = writes + 1, UNCHANGED <<today, found, duty, current>>,
           NEW a \in Approvals, NEW old \in SUBSET claims, NEW new, claims' = old \cup new,
           \A c \in new : /\ c.batch = writes + 1 /\ c.approval = a /\ c.created = today
                          /\ Claiming!Undated(c) \/ \E d \in Shown : Claiming!CopyOf(c, d),
           \A d \in old : d.approval # a,
           \A d \in claims : d.approval # a => d \in old
    PROVE  Claiming!Rewrite(a)
<1>1. \A c \in claims : c.batch <= writes /\ c.batch \in Nat /\ writes \in Nat
  BY DEF Inv, TypeOK, Claim
<1>2. claims' \ claims = new
  <2>1. \A c \in new : c \notin claims
    BY <1>1
  <2> QED BY <2>1
<1>3. ASSUME NEW c \in new, NEW d \in claims', d.approval = a, d.employee = c.employee PROVE c = d
  BY <1>3 DEF Inv, OncePerApproval
<1>4. \A d \in claims' : d.approval = a => d \in new
  OBVIOUS
<1>5. Shown' = Shown /\ Known' = Known
  BY SameKnown DEF Shown
<1> QED BY <1>2, <1>3, <1>4, <1>5 DEF Claiming!Rewrite, Known

(* A submission and a copy. *)
LEMMA SubmitRewrites ==
    ASSUME Inv, Inv', NEW a \in Approvals, NEW update \in Submissions, Submit(a, update)
    PROVE  Claiming!Rewrite(a) \/ Claiming!Attempt
<1>1. writes' = writes + 1 /\ UNCHANGED <<today, found, duty, current>>
  BY DEF Submit, Writes, job
<1>2. CASE update.team = Missing
  <2>1. claims' = claims /\ Shown' = Shown /\ Claiming!Forgets
    BY <1>1, <1>2, SameKnown DEF Submit, Shown
  <2> QED BY <1>1, <2>1 DEF Claiming!Attempt
<1>3. CASE update.team # Missing
  <2> DEFINE old == claims \ ClaimsIn(a)
             new == {NewClaim(a, e, update.destination) : e \in update.team}
  <2>1. claims' = old \cup new
    BY <1>3 DEF Submit
  <2>2. \A c \in new : /\ c.batch = writes + 1 /\ c.approval = a /\ c.created = today
                       /\ Claiming!Undated(c)
    BY DEF NewClaim, Claiming!Undated
  <2>3. old \in SUBSET claims /\ \A d \in claims : d.approval # a <=> d \in old
    BY DEF ClaimsIn
  <2> HIDE DEF old, new
  <2> QED BY <1>1, <2>1, <2>2, <2>3, TogetherInserted
<1> QED BY <1>2, <1>3

LEMMA DuplicateRewrites ==
    ASSUME Inv, Inv', NEW b \in Approvals, Duplicate(b)
    PROVE  Claiming!Rewrite(b)
<1> DEFINE new == {[c EXCEPT !.batch = writes + 1, !.approval = b, !.created = today] : c \in Shown}
<1>1. writes' = writes + 1 /\ UNCHANGED <<today, found, duty, current>> /\ claims' = claims \cup new
  BY DEF Duplicate, Writes, Shown, job
<1>2. \A d \in claims : d.approval # b
  BY DEF Duplicate, Inv, OncePerApproval, ClaimsIn
<1>3. ASSUME NEW x \in new
      PROVE  /\ x.batch = writes + 1 /\ x.approval = b /\ x.created = today
             /\ \E d \in Shown : Claiming!CopyOf(x, d)
  <2>1. PICK c \in Shown : x = [c EXCEPT !.batch = writes + 1, !.approval = b, !.created = today]
    OBVIOUS
  <2>2. c \in Claim
    BY DEF Inv, TypeOK
  <2>3. x.batch = writes + 1 /\ x.approval = b /\ x.created = today
    BY <2>1, <2>2 DEF Claim
  <2>4. Claiming!CopyOf(x, c)
    BY <2>1, <2>3 DEF Claiming!CopyOf
  <2> QED BY <2>3, <2>4
<1> HIDE DEF new
<1> QED BY <1>1, <1>2, <1>3, TogetherInserted

(* One added by hand. *)
LEMMA AddAdds ==
    ASSUME Inv, NEW a \in Approvals, NEW e \in Employees, NEW body \in ByHand, AddClaim(a, e, body)
    PROVE  Claiming!Add(a, e, body)
<1>1. /\ writes' = writes + 1 /\ UNCHANGED <<today, found, duty, current>>
      /\ claims \subseteq claims' /\ \A c \in ClaimsIn(a) : c.employee # e
  BY DEF AddClaim, Writes, details, job
<1>2. /\ \A c \in claims' \ claims :
             /\ c.batch = writes + 1 /\ c.approval = a /\ c.employee = e /\ c.created = today
             /\ c.reporting = Given(body.reporting, Nil) /\ c.next = Given(body.next, Nil)
  BY AddedClaim
<1>3. claims' \ claims = {c \in claims' : c.approval = a /\ c.employee = e}
  BY <1>1, <1>2 DEF ClaimsIn
<1>4. Shown' = Shown /\ Known' = Known
  BY <1>1, SameKnown DEF Shown
<1> QED BY <1>1, <1>2, <1>3, <1>4 DEF Claiming!Add, Claiming!ClaimsIn, Claiming!Given, ClaimsIn, Given, Known

(* One amended by hand. *)
LEMMA AmendAmends ==
    ASSUME NEW c \in claims, NEW body \in ByHand, AmendClaim(c, body)
    PROVE  Claiming!Amend(c, body)
<1>1. /\ writes' = writes + 1 /\ UNCHANGED <<today, found, duty, current>>
  BY DEF AmendClaim, Writes, details
<1>2. Shown' = Shown /\ Known' = Known
  BY <1>1, SameKnown DEF Shown
<1> QED BY <1>1, <1>2 DEF AmendClaim, Claiming!Amend, Claiming!Given, Given, Known

(* What a clerk enters. *)
LEMMA EnterEnters ==
    ASSUME Inv, NEW a \in Approvals, NEW body \in Bodies, EnterDates(a, body)
    PROVE  Claiming!Enter(a, body)
<1> DEFINE Dated(c) == [c EXCEPT !.reporting = Given(body.reporting, @), !.next = Given(NextOf(body), @)]
<1>1. /\ claims' = {IF c.approval = a THEN Dated(c) ELSE c : c \in claims}
      /\ writes' = writes + 1 /\ UNCHANGED <<today, found, duty, current>>
  BY DEF EnterDates, Writes
<1>2. body.reporting \in Int \cup {Missing, Nil} /\ body.next \in Int \cup {Missing, Nil}
  BY ClaimsAssumption
<1>3. ASSUME NEW c \in claims PROVE Claiming!Enters(body, c, Dated(c))
  <2>1. c \in Claim
    BY DEF Inv, TypeOK
  <2>2. /\ Dated(c).reporting = Given(body.reporting, c.reporting)
        /\ Dated(c).next = Given(NextOf(body), c.next)
    BY <2>1 DEF Claim
  <2>3. Dated(c) = [c EXCEPT !.reporting = Dated(c).reporting, !.next = Dated(c).next]
    BY <2>1 DEF Claim
  <2>4. body.next \in Int => Dated(c).next = body.next
    BY <2>2, ClaimsAssumption DEF NextOf, Given
  <2>5. body.next \notin Int /\ body.reporting \in Int => Dated(c).next \in Int
    <3>1. body.reporting \in Int => NextClaimDate(body.reporting) \in Int
      BY ClaimsAssumption DEF NextClaimDate
    <3> QED BY <2>2, <3>1, ClaimsAssumption DEF NextOf, Given
  <2>6. body.next \notin Int /\ body.reporting \notin Int =>
            Dated(c).next = (IF body.next = Missing THEN c.next ELSE Nil)
    BY <1>2, <2>2, ClaimsAssumption DEF NextOf, Given
  <2> HIDE DEF Dated
  <2> QED BY <2>2, <2>3, <2>4, <2>5, <2>6 DEF Claiming!Enters, Given
<1>4. \A d \in claims' : d \in claims \ Claiming!ClaimsIn(a)
                         \/ \E c \in Claiming!ClaimsIn(a) : Claiming!Enters(body, c, d)
  <2> TAKE d \in claims'
  <2> HIDE DEF Dated
  <2>1. PICK c \in claims : d = IF c.approval = a THEN Dated(c) ELSE c
    BY <1>1
  <2> QED BY <1>3, <2>1 DEF Claiming!ClaimsIn
<1>5. \A c \in claims : \/ c \in claims'
                        \/ (c.approval = a /\ \E d \in claims' : Claiming!Enters(body, c, d))
  BY <1>1, <1>3
<1>6. Shown' = Shown /\ Known' = Known
  BY <1>1, SameKnown DEF Shown
<1> QED BY <1>1, <1>4, <1>5, <1>6 DEF Claiming!Enter, Known

(* What the job writes, if the claim is still there. *)
LEMMA CopyDates ==
    ASSUME Inv, NEW key \in Keys, CopyReportDate(key)
    PROVE  Claiming!Attempt \/ \E c \in claims : Claiming!Dates(c)
<1> DEFINE Dated(c) == [c EXCEPT !.reporting = current.day, !.next = NextClaimDate(current.day)]
<1>1. /\ claims' = {IF Key(c) = key THEN Dated(c) ELSE c : c \in claims}
      /\ UNCHANGED <<today, writes, found, duty>> /\ current' = Idle
  BY DEF CopyReportDate, details
<1>2. Shown' = Shown /\ Claiming!Forgets
  BY <1>1, LetsGo DEF Shown
<1>3. current # Idle /\ current.key = key /\ current.day \in DutyDays
  <2>1. current.key = key /\ key # Nil /\ current.day # Invalid
    BY InHandType DEF CopyReportDate
  <2>2. current # Idle
    BY <2>1 DEF Idle
  <2> QED BY <2>1, <2>2 DEF Inv, TypeOK
<1>4. CASE \A c \in claims : Key(c) # key
  <2>1. claims' = claims
    BY <1>1, <1>4
  <2> QED BY <1>1, <1>2, <2>1 DEF Claiming!Attempt
<1>5. ASSUME NEW c \in claims, Key(c) = key PROVE Claiming!Dates(c)
  <2>1. \A d \in claims : Key(d) = key <=> d = c
    BY <1>5 DEF Inv, TypeOK
  <2>2. claims' = (claims \ {c}) \cup {Dated(c)}
    BY <1>1, <2>1
  <2>3. c.employee \in Employees /\ current.key[2] = c.employee
    BY <1>3, <1>5 DEF Key, Inv, TypeOK, Claim
  <2>4. current.day \in Known[c.employee]
    BY <1>3, <2>3 DEF Known
  <2> QED BY <1>1, <1>2, <2>2, <2>4 DEF Claiming!Dates, NextClaimDate, Known
<1> QED BY <1>4, <1>5

(* What the job finds was known. *)
LEMMA FindsKnown ==
    ASSUME Inv, NEW key \in Keys, FindDuty(key)
    PROVE  Known' = Known
<1>1. current = Idle /\ duty' = duty
  BY DEF FindDuty
<1>2. current' = Idle \/ (current' # Idle /\ current'.key = key /\ current'.day = duty[key[2]])
  BY DEF FindDuty
<1> QED BY <1>1, <1>2 DEF Known

LEMMA StepOfLedger ==
    ASSUME Inv, Inv', [Next]_vars
    PROVE  [Claiming!Next]_(Claiming!ledger)
<1>1. CASE Midnight
  <2>1. today' = today + 1 /\ UNCHANGED <<claims, writes, found, duty, current>>
    BY <1>1 DEF Midnight, table, details, job
  <2> QED BY <2>1, SameKnown DEF Claiming!Next, Claiming!Midnight, Shown, Known
<1>2. ASSUME NEW e \in Employees, Report(e) PROVE Claiming!Next
  <2>1. /\ UNCHANGED <<today, claims, writes, found, current>>
        /\ \A x \in Employees \ {e} : duty'[x] = duty[x]
    BY <1>2 DEF Report, table, details, job, Inv, TypeOK
  <2>2. Known' = [Known EXCEPT ![e] = Known'[e]] /\ Known'[e] \subseteq Known[e] \cup DutyDays
    BY <2>1 DEF Known
  <2>3. Shown' = Shown
    BY <2>1 DEF Shown
  <2> QED BY <2>1, <2>2, <2>3 DEF Claiming!Next, Claiming!Report, Known
<1>3. ASSUME NEW a \in Approvals, NEW update \in Submissions, Submit(a, update) PROVE Claiming!Next
  BY <1>3, SubmitRewrites DEF Claiming!Next
<1>4. ASSUME NEW b \in Approvals, Duplicate(b) PROVE Claiming!Next
  BY <1>4, DuplicateRewrites DEF Claiming!Next
<1>5. ASSUME NEW a \in Approvals, SoftDelete(a) PROVE Claiming!Next
  <2>1. UNCHANGED <<today, claims, found, duty, current>> /\ writes' = writes + 1
    BY <1>5 DEF SoftDelete, Writes, job
  <2>2. Shown' = Shown /\ Claiming!Forgets
    BY <2>1, SameKnown DEF Shown
  <2> QED BY <2>1, <2>2 DEF Claiming!Next, Claiming!Attempt
<1>6. ASSUME NEW a \in Approvals, NEW team \in SUBSET Employees, CancelClaims(a, team)
      PROVE  Claiming!Next
  <2>1. /\ writes' = writes + 1 /\ UNCHANGED <<today, found, duty, current>>
        /\ claims' \ claims = {} /\ \A d \in claims : d.approval # a => d \in claims'
    BY <1>6 DEF CancelClaims, Writes, details, job
  <2>2. Shown' = Shown /\ Known' = Known
    BY <2>1, SameKnown DEF Shown
  <2> QED BY <2>1, <2>2 DEF Claiming!Next, Claiming!Rewrite, Known
<1>7. ASSUME NEW a \in Approvals, NEW body \in Bodies, EnterDates(a, body) PROVE Claiming!Next
  BY <1>7, EnterEnters DEF Claiming!Next
<1>8. ASSUME NEW key \in Keys, CopyReportDate(key) PROVE Claiming!Next
  BY <1>8, CopyDates DEF Claiming!Next
<1>9. CASE Fail
  <2>1. /\ UNCHANGED <<today, claims, found, duty>> /\ current' = Idle
        /\ writes' \in {writes, writes + 1}
    BY <1>9 DEF Fail, Broken, Writes, details
  <2>2. Shown' = Shown /\ Claiming!Forgets
    BY <2>1, LetsGo DEF Shown
  <2> QED BY <2>1, <2>2 DEF Claiming!Next, Claiming!Attempt
<1>10. ASSUME UNCHANGED <<today, claims, writes, found>>, Known' = Known
       PROVE  UNCHANGED Claiming!ledger
  BY <1>10 DEF Claiming!ledger, Shown, Known
<1>11. CASE FindPending \/ UNCHANGED vars
  <2>1. UNCHANGED <<today, claims, writes, found, duty, current>>
    BY <1>11 DEF FindPending, vars, table, details, job
  <2> QED BY <1>10, <2>1, SameKnown
<1>12. ASSUME NEW key \in Keys, FindDuty(key) PROVE UNCHANGED Claiming!ledger
  <2>1. UNCHANGED <<today, claims, writes, found>>
    BY <1>12 DEF FindDuty, table, details
  <2> QED BY <1>10, <1>12, <2>1, FindsKnown
<1>13. CASE Expire \/ \E a \in Approvals : Find(a)
  <2>1. UNCHANGED <<today, claims, writes, duty, current>>
    BY <1>13 DEF Expire, Find, table, job
  <2>2. Shown' \subseteq Shown \cup claims
    BY <1>13 DEF Expire, Find, Shown, ClaimsIn
  <2> QED BY <2>1, <2>2, SameKnown DEF Claiming!Next, Claiming!Look, Known
<1>14. ASSUME NEW a \in Approvals, NEW e \in Employees, NEW body \in ByHand, AddClaim(a, e, body)
       PROVE  Claiming!Next
  BY <1>14, AddAdds DEF Claiming!Next
<1>15. ASSUME NEW c \in claims, NEW body \in ByHand, AmendClaim(c, body) PROVE Claiming!Next
  BY <1>15, AmendAmends DEF Claiming!Next
<1> QED BY <1>1, <1>2, <1>3, <1>4, <1>5, <1>6, <1>7, <1>8, <1>9, <1>11, <1>12, <1>13, <1>14, <1>15
    DEF Next, JobStep

(* Submissions, copies of details that may be out of date, cancellations,
   clerks, claims by hand and the nightly job with its queries and errors do to
   the claims what ClaimLedger says: a claim is dated by the job in one act,
   with a day on which its own employee was found on duty (copyReportDate),
   though he may report on another since. *)
THEOREM ClaimsImplementLedger == Spec => ImplementsClaiming
<1>1. Init => Claiming!Init
  <2>1. Init => Known = [e \in Employees |-> {}] /\ Shown = {}
    <3>1. Nil \notin DutyDays
      BY ClaimsAssumption
    <3>2. ASSUME Init, NEW e \in Employees PROVE duty[e] = Nil /\ current = Idle
      BY <3>2 DEF Init
    <3> QED BY <3>1, <3>2 DEF Init, Known, Shown
  <2> QED BY <2>1 DEF Init, Claiming!Init, Known
<1>2. Inv /\ Inv' /\ [Next]_vars => [Claiming!Next]_(Claiming!ledger)
  BY StepOfLedger
<1> QED BY <1>1, <1>2, InitInv, NextInv, PTL DEF Spec, ImplementsClaiming, Claiming!Spec

(* The claims of an approval are those of one request, made on one day: a
   submission leaves none of an earlier one behind (update, duplicate). *)
OneRequest ==
    \A c, d \in claims : c.approval = d.approval => c.batch = d.batch /\ c.created = d.created

(* What the ledger does keeps them together. *)
LEMMA LedgerKeepsTogether ==
    ASSUME OneRequest, claims \subseteq Claim, Claiming!Next, ByHand = {}
    PROVE  OneRequest'
<1>1. ASSUME claims' = claims PROVE OneRequest'
  BY <1>1 DEF OneRequest
<1>2. ASSUME \A x \in claims' : \E c \in claims : /\ x.approval = c.approval
                                                 /\ x.batch = c.batch /\ x.created = c.created
      PROVE  OneRequest'
  BY <1>2 DEF OneRequest
<1>3. ASSUME NEW a \in Approvals, Claiming!Rewrite(a) PROVE OneRequest'
  <2> DEFINE new == claims' \ claims
  <2>1. /\ \A c \in new : c.batch = writes' /\ c.approval = a /\ c.created = today
        /\ new # {} => \A d \in claims' : d.approval = a => d \in new
    BY <1>3 DEF Claiming!Rewrite
  <2> QED BY <2>1 DEF OneRequest
<1>4. ASSUME NEW a \in Approvals, NEW body \in Bodies, Claiming!Enter(a, body) PROVE OneRequest'
  <2>1. ASSUME NEW c \in claims, NEW x, Claiming!Enters(body, c, x)
        PROVE  x.approval = c.approval /\ x.batch = c.batch /\ x.created = c.created
    <3>1. x = [c EXCEPT !.reporting = x.reporting, !.next = x.next] /\ c \in Claim
      BY <2>1 DEF Claiming!Enters
    <3> QED BY <3>1 DEF Claim
  <2>2. \A x \in claims' : x \in claims \/ \E c \in claims : Claiming!Enters(body, c, x)
    BY <1>4 DEF Claiming!Enter, Claiming!ClaimsIn
  <2> QED BY <1>2, <2>1, <2>2
<1>5. ASSUME NEW c \in claims, Claiming!Dates(c) PROVE OneRequest'
  <2>1. PICK day : claims' = (claims \ {c}) \cup
                           {[c EXCEPT !.reporting = day, !.next = day + TwoYears + 1]}
    BY <1>5 DEF Claiming!Dates
  <2> DEFINE dated == [c EXCEPT !.reporting = day, !.next = day + TwoYears + 1]
  <2>2. dated.approval = c.approval /\ dated.batch = c.batch /\ dated.created = c.created
    BY DEF Claim
  <2> HIDE DEF dated
  <2> QED BY <1>2, <2>1, <2>2 DEF dated
<1> QED BY <1>1, <1>3, <1>4, <1>5
    DEF Claiming!Next, Claiming!Midnight, Claiming!Look, Claiming!Attempt, Claiming!Report

(* Without claims added by hand (ApprovalClothingExpenseService), this is always
   so. *)
THEOREM ClaimsComeTogether ==
    ASSUME ByHand = {} PROVE Spec => []OneRequest
<1>1. Init => OneRequest
  BY DEF Init, OneRequest
<1>2. Inv /\ Inv' /\ OneRequest /\ [Next]_vars => OneRequest'
  <2>1. ASSUME Inv, OneRequest, UNCHANGED Claiming!ledger PROVE OneRequest'
    BY <2>1 DEF OneRequest, Claiming!ledger
  <2>2. Inv => claims \subseteq Claim
    BY DEF Inv, TypeOK
  <2> QED BY <2>1, <2>2, StepOfLedger, LedgerKeepsTogether
<1> QED BY <1>1, <1>2, InitInv, NextInv, PTL DEF Spec
-----------------------------------------------------------------------------
(* What the job lets go *)

(* A claim that a night of the job should date. *)
Overdue(key) ==
    \E c \in claims : Key(c) = key /\ c.reporting = Nil /\ duty[c.employee] \in DutyDays

(* Every night lists every overdue claim, and what is listed stays in hand
   until it is dated or gone, or an error hits that very claim. *)
OverdueStaysInHand ==
    [][/\ FindPending => \A key \in Keys : Overdue(key) => key \in InHand'
       /\ \A key \in InHand : Overdue(key) =>
              key \in InHand' \/ ~ Overdue(key)' \/ (current.key = key /\ Fail)]_vars

LEMMA ListsOverdue ==
    ASSUME Inv, FindPending, NEW key \in Keys, Overdue(key)
    PROVE  key \in InHand'
BY DEF FindPending, Overdue, InHand

(* The job takes up a claim, and dates it. *)
LEMMA TakesUpOverdue ==
    ASSUME Inv, NEW key \in Keys, NEW taken \in Keys, FindDuty(taken),
           Overdue(key), key \in InHand
    PROVE  key \in InHand'
<1>1. key \in left /\ left' = left \ {taken} /\ key # Nil
  BY InHandType DEF FindDuty, InHand, Idle
<1>2. CASE key # taken
  BY <1>1, <1>2 DEF InHand
<1>3. CASE key = taken
  <2>1. duty[key[2]] # Nil
    <3>1. PICK c \in claims : Key(c) = key /\ duty[c.employee] \in DutyDays
      BY DEF Overdue
    <3> QED
      BY <3>1, ClaimsAssumption DEF Key
  <2>2. current'.key = key
    BY <1>3, <2>1 DEF FindDuty
  <2> QED
    BY <1>1, <2>2 DEF InHand
<1> QED
  BY <1>2, <1>3

LEMMA DatesOverdue ==
    ASSUME Inv, NEW key \in Keys, NEW taken \in Keys, CopyReportDate(taken),
           key \in InHand
    PROVE  key \in InHand' \/ ~ Overdue(key)'
<1>1. current.key = taken /\ taken # Nil /\ left' = left
  BY InHandType DEF CopyReportDate
<1>2. CASE key # taken
  BY <1>1, <1>2 DEF InHand
<1>3. CASE key = taken
  <2>1. current \in [key : Keys, day : DutyDays \cup {Invalid}]
    <3>1. current # Idle
      BY <1>1 DEF Idle
    <3> QED
      BY <3>1 DEF Inv, TypeOK
  <2>2. current.day # Nil
    <3>1. current.day \in DutyDays
      BY <2>1 DEF CopyReportDate
    <3> QED
      BY <3>1, ClaimsAssumption
  <2>3. ASSUME NEW c \in claims', Key(c) = key PROVE c.reporting # Nil
    <3>1. PICK d \in claims :
              c = IF Key(d) = taken
                  THEN [d EXCEPT !.reporting = current.day, !.next = NextClaimDate(current.day)]
                  ELSE d
      BY DEF CopyReportDate
    <3>2. d \in Claim
      BY DEF Inv, TypeOK
    <3>3. Key(d) = taken
      BY <1>3, <2>3, <3>1
    <3>4. c.reporting = current.day
      BY <3>1, <3>2, <3>3 DEF Claim
    <3> QED
      BY <2>2, <3>4
  <2> QED
    BY <2>3 DEF Overdue
<1> QED
  BY <1>2, <1>3

(* The nightly job passes over no claim it should date, whatever is submitted,
   copied, cancelled or entered while it runs: what keeps it from a claim is an
   error of that claim alone.  With fairness of the job this is what
   ClaimsGetDated needs. *)
THEOREM NoneIsPassedOver == Spec => OverdueStaysInHand
<1> DEFINE Listed == FindPending => \A key \in Keys : Overdue(key) => key \in InHand'
           Stays(key) == key \in InHand' \/ ~ Overdue(key)' \/ (current.key = key /\ Fail)
<1>1. ASSUME Inv, [Next]_vars, NEW key \in InHand, Overdue(key)
      PROVE  Stays(key) \/ UNCHANGED vars
  <2>1. key \in Keys
    BY <1>1, InHandType
  <2>2. CASE UNCHANGED <<left, current>>
    BY <1>1, <2>2 DEF InHand
  <2>3. CASE FindPending
    BY <1>1, <2>1, <2>3, ListsOverdue
  <2>4. CASE Fail
    BY <2>4 DEF Fail, InHand, Idle
  <2>5. CASE \E taken \in Keys : FindDuty(taken) \/ CopyReportDate(taken)
    BY <1>1, <2>1, <2>5, TakesUpOverdue, DatesOverdue
  <2>6. ASSUME Midnight \/ Expire \/ \E e \in Employees : Report(e)
        PROVE  UNCHANGED <<left, current>>
    BY <2>6 DEF Midnight, Expire, Report, job
  <2>7. ASSUME NEW a \in Approvals,
               \/ \E update \in Submissions : Submit(a, update)
               \/ Find(a) \/ Duplicate(a)
               \/ SoftDelete(a)
               \/ \E team \in SUBSET Employees : CancelClaims(a, team)
               \/ \E body \in Bodies : EnterDates(a, body)
               \/ \E e \in Employees, body \in ByHand : AddClaim(a, e, body)
        PROVE  UNCHANGED <<left, current>>
    BY <2>7 DEF Submit, Find, Duplicate, SoftDelete, CancelClaims, EnterDates, AddClaim, job
  <2>8. ASSUME NEW c \in claims, NEW body \in ByHand, AmendClaim(c, body)
        PROVE  UNCHANGED <<left, current>>
    BY <2>8 DEF AmendClaim
  <2> QED
    BY <1>1, <2>2, <2>3, <2>4, <2>5, <2>6, <2>7, <2>8 DEF Next, JobStep
<1>2. Inv => Listed
  BY ListsOverdue
<1>3. Inv /\ [Next]_vars =>
          [Listed /\ \A key \in InHand : Overdue(key) => Stays(key)]_vars
  BY <1>1, <1>2
<1>4. Inv /\ [Next]_vars => Inv'
  BY NextInv
<1> QED
  BY InitInv, <1>3, <1>4, PTL DEF Spec, OverdueStaysInHand
=============================================================================

--------------------------- MODULE ReportFormsProofs ---------------------------
(***************************************************************************)
(* Proofs about ReportForms, for any number of updates in flight, any      *)
(* travellers, lists and bodies.                                           *)
(***************************************************************************)
EXTENDS ReportForms, FiniteSetTheorems, SequenceTheorems, TLAPS

-----------------------------------------------------------------------------
(* What an update in flight is like. *)

Early == {"lists", "receipts", "purge", "insert"}
Forming == {"form", "traveller", "newTraveller", "newForm", "current", "sync"}
PCs == {"idle", "done"} \cup Early \cup Forming

Body == [name : Names \cup {Nil}, traveller : Nat \cup {Nil},
         keep : [Kinds -> SUBSET Nat], new : [Kinds -> 0..MaxNew]]

Update == [pc : PCs, by : Nat, met : SUBSET Nat, content : Contents \cup {Nil},
           body : Body, left : Seq({"expense", "receipt"}), target : Nat \cup {Nil},
           fresh : BOOLEAN, kind : Kinds, stale : SUBSET Nat, keep : SUBSET Nat,
           new : Nat]

(* An update names rows that were given, a traveller and a form that are there,
   with T travellers, F forms, ids of rows up to g and n updates so far; and has
   looked for a form before it creates one. *)
Sound(q, T, F, g, n) ==
    /\ q \in Update
    /\ q.by \in 0..n /\ q.met \subseteq 1..n /\ q.new \in 0..MaxNew
    /\ \A k \in Kinds : q.body.keep[k] \subseteq 1..g[k]
    /\ q.keep \subseteq 1..g[q.kind]
    /\ q.pc # "idle" => /\ q.by # 0
                        /\ q.content \in Contents
                        /\ q.content.form => q.body.name \in Names
    /\ q.pc \in Early => q.content.inserts # Nil /\ ~ q.fresh
    /\ q.pc \in Early \ {"insert"} => q.left = q.content.inserts
    /\ q.pc = "insert" => q.left # <<>>
    /\ q.pc \in Forming => q.content.form
    /\ q.pc = "form" => ~ q.fresh
    /\ q.pc = "newForm" => q.target \in 1..T
    /\ q.pc \in {"current", "sync"} => q.target \in 1..F
    /\ q.pc = "done" /\ q.content.form => q.target \in 1..F
    /\ q.pc = "current" => q.keep = q.body.keep[q.kind] /\ q.new = q.body.new[q.kind]
    /\ q.pc \notin {"receipts", "sync"} => q.stale = {}

Base ==
    /\ travellers \in Seq(Names)
    /\ forms \in Seq(DOMAIN travellers)
    /\ given \in [list : Nat, receipt : Nat, detail : [Kinds -> Nat]]
    /\ arrivals \in Nat
    /\ details \subseteq [id : Nat, kind : Kinds, form : DOMAIN forms, by : 1..arrivals]
    /\ \A d \in details : d.id \in 1..given.detail[d.kind]
    /\ lists \subseteq [id : 1..given.list, by : 1..arrivals]
    /\ receipts \subseteq [id : 1..given.receipt, list : Ids(lists), by : 1..arrivals]

(* Updates in flight together have met. *)
Meetings ==
    \A p, r \in Requests :
        p # r /\ InFlight(p) /\ InFlight(r) => request[r].by \in request[p].met

Inv ==
    /\ Base
    /\ request \in [Requests -> Update]
    /\ \A p \in Requests :
           Sound(request[p], Len(travellers), Len(forms), given.detail, arrivals)
    /\ Meetings

LEMMA KindsAre == Kinds \subseteq Nat /\ 1 \in Kinds
BY ReportAssumption DEF Kinds

LEMMA BodyFacts ==
    ASSUME NEW b \in Body, NEW k \in Kinds
    PROVE  b.keep[k] \in SUBSET Nat /\ b.new[k] \in 0..MaxNew /\ b.new[k] \in Nat
BY ReportAssumption DEF Body

LEMMA NoBodyIs ==
    /\ NoBody \in Body
    /\ NoBody.keep = [k \in Kinds |-> {}] /\ NoBody.new = [k \in Kinds |-> 0]
    /\ \A k \in Kinds : NoBody.keep[k] = {} /\ NoBody.new[k] = 0
BY ReportAssumption DEF NoBody, Body

LEMMA IdleIs ==
    /\ Idle \in Update
    /\ Idle.pc = "idle" /\ Idle.by = 0 /\ Idle.met = {} /\ Idle.body = NoBody
    /\ Idle.left = <<>> /\ Idle.fresh = FALSE /\ Idle.kind = 1 /\ Idle.stale = {}
    /\ Idle.keep = {} /\ Idle.new = 0
BY NoBodyIs, KindsAre DEF Idle, Update, PCs

LEMMA IdleSound ==
    ASSUME NEW T, NEW F, NEW g, NEW n \in Nat
    PROVE  Sound(Idle, T, F, g, n)
BY IdleIs, NoBodyIs, ReportAssumption DEF Sound, Early, Forming

(* What an update names stays as the tables grow. *)
LEMMA SoundGrows ==
    ASSUME NEW T, NEW F, NEW g, NEW n, NEW T2, NEW F2, NEW g2,
           1..T \subseteq 1..T2, 1..F \subseteq 1..F2,
           \A k \in Kinds : 1..g[k] \subseteq 1..g2[k],
           NEW q, Sound(q, T, F, g, n)
    PROVE  Sound(q, T2, F2, g2, n)
<1>1. q.kind \in Kinds
  BY DEF Sound, Update
<1> QED
  BY <1>1 DEF Sound

(* An update moves on, and the tables may grow. *)
LEMMA Moves ==
    ASSUME Inv, NEW p \in Requests, NEW r, request' = [request EXCEPT ![p] = r],
           Base', arrivals' = arrivals,
           Len(travellers) <= Len(travellers'), Len(forms) <= Len(forms'),
           \A k \in Kinds : given.detail[k] <= given'.detail[k],
           Sound(r, Len(travellers'), Len(forms'), given'.detail, arrivals),
           r.pc # "idle" => /\ InFlight(p)
                            /\ r.by = request[p].by /\ r.met = request[p].met
    PROVE  Inv'
<1>1. request'[p] = r /\ \A s \in Requests \ {p} : request'[s] = request[s]
  BY DEF Inv
<1>2. r \in Update /\ request' \in [Requests -> Update]
  BY DEF Inv, Sound
<1>3. /\ Len(travellers) \in Nat /\ Len(forms) \in Nat /\ arrivals \in Nat
      /\ Len(travellers') \in Nat /\ Len(forms') \in Nat
      /\ given.detail \in [Kinds -> Nat] /\ given'.detail \in [Kinds -> Nat]
  BY LenProperties DEF Inv, Base
<1>4. ASSUME NEW s \in Requests
      PROVE  Sound(request'[s], Len(travellers'), Len(forms'), given'.detail, arrivals)
  <2>1. CASE s = p
    BY <1>1, <2>1
  <2>2. CASE s # p
    <3>1. request'[s] = request[s]
          /\ Sound(request[s], Len(travellers), Len(forms), given.detail, arrivals)
      BY <1>1, <2>2 DEF Inv
    <3>2. /\ 1..Len(travellers) \subseteq 1..Len(travellers')
          /\ 1..Len(forms) \subseteq 1..Len(forms')
          /\ \A k \in Kinds : 1..given.detail[k] \subseteq 1..given'.detail[k]
      BY <1>3
    <3>3. PICK q, T, F, g, T2, F2, g2 :
              /\ q = request[s] /\ T = Len(travellers) /\ F = Len(forms) /\ g = given.detail
              /\ T2 = Len(travellers') /\ F2 = Len(forms') /\ g2 = given'.detail
      OBVIOUS
    <3>4. Sound(q, T2, F2, g2, arrivals)
      BY <3>1, <3>2, <3>3, SoundGrows
    <3> QED
      BY <3>1, <3>3, <3>4
  <2> QED
    BY <2>1, <2>2
<1>5. Meetings'
  BY <1>1 DEF Inv, Meetings, InFlight
<1> QED
  BY <1>2, <1>4, <1>5 DEF Inv

LEMMA MovesAlone ==
    ASSUME Inv, NEW p \in Requests, NEW r, request' = [request EXCEPT ![p] = r],
           UNCHANGED <<form, expenses, given, arrivals>>,
           Sound(r, Len(travellers), Len(forms), given.detail, arrivals),
           r.pc # "idle" => /\ InFlight(p)
                            /\ r.by = request[p].by /\ r.met = request[p].met
    PROVE  Inv'
<1>1. /\ travellers' = travellers /\ forms' = forms /\ given' = given /\ arrivals' = arrivals
      /\ details' = details /\ lists' = lists /\ receipts' = receipts
  BY DEF form, expenses
<1>2. Base'
  BY <1>1 DEF Inv, Base, Ids
<1>3. /\ Len(travellers) \in Nat /\ Len(forms) \in Nat
      /\ \A k \in Kinds : given.detail[k] \in Nat
  BY LenProperties DEF Inv, Base
<1>4. /\ Len(travellers) <= Len(travellers') /\ Len(forms) <= Len(forms')
      /\ \A k \in Kinds : given.detail[k] <= given'.detail[k]
  BY <1>1, <1>3
<1> QED
  BY <1>1, <1>2, <1>4, Moves

-----------------------------------------------------------------------------
(* Where an update goes next. *)

(* Everything but the place of an update, and what is left to do. *)
Same(q, r) ==
    r.by = q.by /\ r.met = q.met /\ r.content = q.content /\ r.body = q.body

LEMMA PastIs ==
    ASSUME NEW q \in Update
    PROVE  /\ PastExpenses(q) \in Update /\ Same(q, PastExpenses(q))
           /\ PastExpenses(q).pc = IF q.content.form THEN "form" ELSE "done"
           /\ PastExpenses(q).left = q.left /\ PastExpenses(q).target = q.target
           /\ PastExpenses(q).fresh = q.fresh /\ PastExpenses(q).kind = q.kind
           /\ PastExpenses(q).stale = q.stale /\ PastExpenses(q).keep = q.keep
           /\ PastExpenses(q).new = q.new
BY DEF PastExpenses, Update, Same, PCs, Forming

LEMMA PastSound ==
    ASSUME NEW T, NEW F, NEW g, NEW n, NEW q, Sound(q, T, F, g, n),
           q.by # 0, q.content \in Contents, q.content.form => q.body.name \in Names,
           ~ q.fresh, q.stale = {}
    PROVE  Sound(PastExpenses(q), T, F, g, n)
<1> DEFINE r == PastExpenses(q)
<1>1. q \in Update
  BY DEF Sound
<1>2. /\ r \in Update /\ Same(q, r) /\ r.pc = IF q.content.form THEN "form" ELSE "done"
      /\ r.fresh = q.fresh /\ r.kind = q.kind
      /\ r.stale = q.stale /\ r.keep = q.keep /\ r.new = q.new
  BY <1>1, PastIs
<1> HIDE DEF r
<1>3. Sound(r, T, F, g, n)
  BY <1>2 DEF Sound, Same, Early, Forming
<1> QED
  BY <1>3 DEF r

LEMMA EntersIs ==
    ASSUME NEW q \in Update, NEW k \in Kinds
    PROVE  /\ Enters(q, k) \in Update /\ Same(q, Enters(q, k))
           /\ Enters(q, k).pc = IF q.fresh THEN "sync" ELSE "current"
           /\ Enters(q, k).left = q.left /\ Enters(q, k).target = q.target
           /\ Enters(q, k).fresh = q.fresh /\ Enters(q, k).kind = k
           /\ Enters(q, k).stale = q.stale /\ Enters(q, k).keep = q.body.keep[k]
           /\ Enters(q, k).new = q.body.new[k]
<1>1. q.body \in Body
  BY DEF Update
<1>2. q.body.keep[k] \in SUBSET Nat /\ q.body.new[k] \in Nat
  BY <1>1, BodyFacts
<1> QED
  BY <1>2 DEF Enters, Update, Same, PCs, Forming

LEMMA EntersSound ==
    ASSUME NEW T, NEW F, NEW g, NEW n, NEW q, Sound(q, T, F, g, n),
           q.pc \in Forming, q.stale = {},
           NEW f \in 1..F, f \in Nat, NEW x, x = [q EXCEPT !.target = f],
           NEW k \in Kinds
    PROVE  Sound(Enters(x, k), T, F, g, n)
<1> DEFINE r == Enters(x, k)
<1>1. q \in Update
  BY DEF Sound
<1>2. /\ x \in Update /\ Same(q, x) /\ x.target = f /\ x.fresh = q.fresh
      /\ x.stale = q.stale
  BY <1>1 DEF Update, Same
<1>3. /\ r \in Update /\ Same(x, r) /\ r.pc = IF x.fresh THEN "sync" ELSE "current"
      /\ r.target = x.target /\ r.fresh = x.fresh /\ r.kind = k
      /\ r.stale = x.stale /\ r.keep = x.body.keep[k] /\ r.new = x.body.new[k]
  BY <1>2, EntersIs
<1>4. q.body \in Body
  BY <1>1 DEF Update
<1>5. q.body.new[k] \in 0..MaxNew
  BY <1>4, BodyFacts
<1> HIDE DEF r
<1>6. Sound(r, T, F, g, n)
  BY <1>2, <1>3, <1>5 DEF Sound, Same, Early, Forming
<1> QED
  BY <1>6 DEF r

LEMMA InsertedIs ==
    ASSUME NEW q \in Update, q.left # <<>>
    PROVE  /\ Inserted(q) \in Update /\ Same(q, Inserted(q))
           /\ Inserted(q).fresh = q.fresh /\ Inserted(q).kind = q.kind
           /\ Inserted(q).stale = q.stale /\ Inserted(q).keep = q.keep
           /\ Inserted(q).new = q.new
           /\ Inserted(q).left = Tail(q.left)
           /\ \/ Tail(q.left) # <<>> /\ Inserted(q).pc = q.pc
              \/ /\ Tail(q.left) = <<>>
                 /\ Inserted(q).pc = IF q.content.form THEN "form" ELSE "done"
<1>1. q.left \in Seq({"expense", "receipt"})
  BY DEF Update
<1>2. Tail(q.left) \in Seq({"expense", "receipt"}) /\ Len(Tail(q.left)) = Len(q.left) - 1
      /\ Len(q.left) \in Nat /\ <<>> \in Seq({"expense", "receipt"})
  BY <1>1, LenProperties, HeadTailProperties
<1> PICK rest \in Seq({"expense", "receipt"}) : rest = Tail(q.left)
  BY <1>2
<1>5. rest = <<>> <=> Len(q.left) = 1
  <2>1. rest = <<>> <=> Len(rest) = 0
    BY EmptySeq
  <2> QED
    BY <1>2, <2>1
<1>3. CASE Len(q.left) = 1
  <2> DEFINE x == [q EXCEPT !.left = <<>>]
  <2>1. /\ x \in Update /\ Same(q, x) /\ x.left = <<>> /\ x.fresh = q.fresh
        /\ x.kind = q.kind /\ x.stale = q.stale /\ x.keep = q.keep /\ x.new = q.new
    BY <1>2 DEF Update, Same
  <2>2. Inserted(q) = PastExpenses(x)
    BY <1>3 DEF Inserted
  <2> HIDE DEF x
  <2>3. /\ Inserted(q) \in Update /\ Same(q, Inserted(q))
        /\ Inserted(q).fresh = q.fresh /\ Inserted(q).kind = q.kind
        /\ Inserted(q).stale = q.stale /\ Inserted(q).keep = q.keep
        /\ Inserted(q).new = q.new /\ Inserted(q).left = <<>>
        /\ Inserted(q).pc = IF q.content.form THEN "form" ELSE "done"
    BY <2>1, <2>2, PastIs DEF Same
  <2> QED
    BY <1>3, <1>5, <2>3
<1>4. CASE Len(q.left) # 1
  <2>1. Inserted(q) = [q EXCEPT !.left = Tail(q.left)]
    BY <1>4 DEF Inserted
  <2>2. [q EXCEPT !.left = rest] \in Update
    BY DEF Update
  <2> QED
    BY <1>4, <1>5, <2>1, <2>2 DEF Update, Same
<1> QED
  BY <1>3, <1>4

LEMMA InsertedSound ==
    ASSUME NEW T, NEW F, NEW g, NEW n, NEW q, Sound(q, T, F, g, n), q.pc = "insert",
           NEW f \in Nat \cup {Nil}, NEW x, x = [q EXCEPT !.target = f]
    PROVE  Sound(Inserted(x), T, F, g, n)
<1> DEFINE r == Inserted(x)
<1>1. q \in Update /\ q.left # <<>>
  BY DEF Sound
<1>2. /\ x \in Update /\ Same(q, x) /\ x.left = q.left /\ x.fresh = q.fresh
      /\ x.kind = q.kind /\ x.stale = q.stale /\ x.keep = q.keep /\ x.new = q.new
      /\ x.pc = q.pc
  BY <1>1 DEF Update, Same
<1>3. /\ r \in Update /\ Same(x, r) /\ r.fresh = x.fresh /\ r.kind = x.kind
      /\ r.stale = x.stale /\ r.keep = x.keep /\ r.new = x.new /\ r.left = Tail(x.left)
      /\ \/ Tail(x.left) # <<>> /\ r.pc = x.pc
         \/ r.pc = IF x.content.form THEN "form" ELSE "done"
  BY <1>1, <1>2, InsertedIs
<1> HIDE DEF r
<1>4. Sound(r, T, F, g, n)
  BY <1>2, <1>3 DEF Sound, Same, Early, Forming
<1> QED
  BY <1>4 DEF r

-----------------------------------------------------------------------------
(* Types, and what an update in flight is like, at every step. *)

LEMMA UpdateFacts ==
    ASSUME Inv, NEW p \in Requests
    PROVE  /\ request[p] \in Update
           /\ Sound(request[p], Len(travellers), Len(forms), given.detail, arrivals)
           /\ request[p].body \in Body /\ request[p].kind \in Kinds
           /\ InFlight(p) => request[p].by \in 1..arrivals
           /\ DOMAIN travellers = 1..Len(travellers) /\ DOMAIN forms = 1..Len(forms)
           /\ Len(travellers) \in Nat /\ Len(forms) \in Nat /\ arrivals \in Nat
           /\ given.list \in Nat /\ given.receipt \in Nat /\ given.detail \in [Kinds -> Nat]
<1>1. /\ request[p] \in Update
      /\ Sound(request[p], Len(travellers), Len(forms), given.detail, arrivals)
  BY DEF Inv
<1>2. arrivals \in Nat
  BY DEF Inv, Base
<1>3. InFlight(p) => request[p].by \in 1..arrivals
  BY <1>1, <1>2 DEF Sound, InFlight
<1>4. travellers \in Seq(Names) /\ forms \in Seq(DOMAIN travellers)
  BY DEF Inv, Base
<1>5. /\ DOMAIN travellers = 1..Len(travellers) /\ DOMAIN forms = 1..Len(forms)
      /\ Len(travellers) \in Nat /\ Len(forms) \in Nat
  BY <1>4, LenProperties
<1>6. given.list \in Nat /\ given.receipt \in Nat /\ given.detail \in [Kinds -> Nat]
  BY DEF Inv, Base
<1>7. request[p].body \in Body /\ request[p].kind \in Kinds
  BY <1>1 DEF Update
<1> QED
  BY <1>1, <1>2, <1>3, <1>5, <1>6, <1>7

LEMMA FindListsInv ==
    ASSUME Inv, NEW p \in Requests, FindLists(p)
    PROVE  Inv'
<1> DEFINE q == request[p]
           r == [q EXCEPT !.pc = "receipts", !.stale = Ids(lists)]
<1>1. q \in Update /\ Sound(q, Len(travellers), Len(forms), given.detail, arrivals)
  BY UpdateFacts
<1>2. Ids(lists) \subseteq Nat
  BY DEF Inv, Base, Ids
<1>3. /\ r \in Update /\ Same(q, r) /\ r.pc = "receipts" /\ r.left = q.left
      /\ r.fresh = q.fresh /\ r.kind = q.kind /\ r.keep = q.keep /\ r.new = q.new
  BY <1>1, <1>2 DEF Update, Same, PCs, Early
<1>4. q.pc = "lists" /\ request' = [request EXCEPT ![p] = r]
      /\ UNCHANGED <<form, expenses, given, arrivals>>
  BY DEF FindLists, At, Goes
<1> HIDE DEF r
<1>5. Sound(r, Len(travellers), Len(forms), given.detail, arrivals)
  BY <1>1, <1>3, <1>4 DEF Sound, Same, Early, Forming
<1> QED
  BY <1>3, <1>4, <1>5, MovesAlone DEF InFlight, Same

LEMMA FindFormInv ==
    ASSUME Inv, NEW p \in Requests, FindForm(p)
    PROVE  Inv'
<1> DEFINE q == request[p]
<1>1. /\ q \in Update /\ Sound(q, Len(travellers), Len(forms), given.detail, arrivals)
      /\ DOMAIN forms = 1..Len(forms)
  BY UpdateFacts
<1>2. q.pc = "form" /\ UNCHANGED <<form, expenses, given, arrivals>>
  BY DEF FindForm, At
<1>3. CASE q.body.traveller = Nil
  <2> DEFINE r == [q EXCEPT !.pc = "traveller", !.fresh = TRUE]
  <2>1. /\ r \in Update /\ Same(q, r) /\ r.pc = "traveller" /\ r.left = q.left
        /\ r.kind = q.kind /\ r.keep = q.keep /\ r.new = q.new /\ r.stale = q.stale
    BY <1>1 DEF Update, Same, PCs, Forming
  <2>2. request' = [request EXCEPT ![p] = r]
    BY <1>3 DEF FindForm, Goes
  <2> HIDE DEF r
  <2>3. Sound(r, Len(travellers), Len(forms), given.detail, arrivals)
    BY <1>1, <1>2, <2>1 DEF Sound, Same, Early, Forming
  <2> QED
    BY <1>2, <2>1, <2>2, <2>3, MovesAlone DEF InFlight, Same
<1>4. CASE q.body.traveller # Nil
  <2>1. PICK f \in FormsOf(q.body.traveller) :
            request' = [request EXCEPT ![p] = Enters([q EXCEPT !.target = f], 1)]
    BY <1>4 DEF FindForm, Goes
  <2>2. f \in 1..Len(forms) /\ f \in Nat
    BY <1>1 DEF FormsOf
  <2>3. q.pc \in Forming /\ q.stale = {} /\ 1 \in Kinds
    BY <1>1, <1>2, KindsAre DEF Forming, Sound
  <2> DEFINE x == [q EXCEPT !.target = f]
             r == Enters(x, 1)
  <2>4. x \in Update /\ Same(q, x)
    BY <1>1, <2>2 DEF Update, Same
  <2>5. Same(x, r)
    BY <2>3, <2>4, EntersIs
  <2>6. Sound(r, Len(travellers), Len(forms), given.detail, arrivals)
    BY <1>1, <2>2, <2>3, EntersSound
  <2>7. request' = [request EXCEPT ![p] = r]
    BY <2>1
  <2> HIDE DEF x, r
  <2> QED
    BY <1>2, <2>4, <2>5, <2>6, <2>7, MovesAlone DEF InFlight, Same
<1> QED
  BY <1>3, <1>4

LEMMA FindTravellerInv ==
    ASSUME Inv, NEW p \in Requests, FindTraveller(p)
    PROVE  Inv'
<1> DEFINE q == request[p]
<1>1. /\ q \in Update /\ Sound(q, Len(travellers), Len(forms), given.detail, arrivals)
      /\ DOMAIN travellers = 1..Len(travellers)
  BY UpdateFacts
<1>2. q.pc = "traveller" /\ UNCHANGED <<form, expenses, given, arrivals>>
  BY DEF FindTraveller, At
<1>3. CASE Named(q.body.name) = {}
  <2> DEFINE r == [q EXCEPT !.pc = "newTraveller"]
  <2>1. /\ r \in Update /\ Same(q, r) /\ r.pc = "newTraveller"
        /\ r.kind = q.kind /\ r.keep = q.keep /\ r.new = q.new /\ r.stale = q.stale
    BY <1>1 DEF Update, Same, PCs, Forming
  <2>2. request' = [request EXCEPT ![p] = r]
    BY <1>3 DEF FindTraveller, Goes
  <2> HIDE DEF r
  <2>3. Sound(r, Len(travellers), Len(forms), given.detail, arrivals)
    BY <1>1, <1>2, <2>1 DEF Sound, Same, Early, Forming
  <2> QED
    BY <1>2, <2>1, <2>2, <2>3, MovesAlone DEF InFlight, Same
<1>4. CASE Named(q.body.name) # {}
  <2>1. PICK t \in Named(q.body.name) :
            request' = [request EXCEPT ![p] = [q EXCEPT !.pc = "newForm", !.target = t]]
    BY <1>4 DEF FindTraveller, Goes
  <2>2. t \in 1..Len(travellers) /\ t \in Nat
    BY <1>1 DEF Named
  <2> DEFINE r == [q EXCEPT !.pc = "newForm", !.target = t]
  <2>3. /\ r \in Update /\ Same(q, r) /\ r.pc = "newForm" /\ r.target = t
        /\ r.kind = q.kind /\ r.keep = q.keep /\ r.new = q.new /\ r.stale = q.stale
    BY <1>1, <2>2 DEF Update, Same, PCs, Forming
  <2>4. request' = [request EXCEPT ![p] = r]
    BY <2>1
  <2> HIDE DEF r
  <2>5. Sound(r, Len(travellers), Len(forms), given.detail, arrivals)
    BY <1>1, <1>2, <2>2, <2>3 DEF Sound, Same, Early, Forming
  <2> QED
    BY <1>2, <2>3, <2>4, <2>5, MovesAlone DEF InFlight, Same
<1> QED
  BY <1>3, <1>4

LEMMA FindCurrentInv ==
    ASSUME Inv, NEW p \in Requests, FindCurrent(p)
    PROVE  Inv'
<1> DEFINE q == request[p]
           s == Ids(Rows(q.target, q.kind)) \ q.keep
           r == [q EXCEPT !.pc = "sync", !.stale = s]
<1>1. q \in Update /\ Sound(q, Len(travellers), Len(forms), given.detail, arrivals)
  BY UpdateFacts
<1>2. s \subseteq Nat
  BY DEF Inv, Base, Ids, Rows, Of
<1>3. q.pc = "current" /\ request' = [request EXCEPT ![p] = r]
      /\ UNCHANGED <<form, expenses, given, arrivals>>
  BY DEF FindCurrent, At, Goes
<1> HIDE DEF s
<1>4. /\ r \in Update /\ Same(q, r) /\ r.pc = "sync" /\ r.target = q.target
      /\ r.kind = q.kind /\ r.keep = q.keep /\ r.new = q.new
  BY <1>1, <1>2 DEF Update, Same, PCs, Forming
<1> HIDE DEF r
<1>5. Sound(r, Len(travellers), Len(forms), given.detail, arrivals)
  BY <1>1, <1>3, <1>4 DEF Sound, Same, Early, Forming
<1> QED
  BY <1>3, <1>4, <1>5, MovesAlone DEF InFlight, Same

LEMMA NextListInv ==
    ASSUME Inv, NEW p \in Requests, NextList(p)
    PROVE  Inv'
<1> DEFINE q == request[p]
<1>1. /\ q \in Update /\ Sound(q, Len(travellers), Len(forms), given.detail, arrivals)
      /\ q.kind \in Kinds
  BY UpdateFacts
<1>2. /\ q.pc = "sync" /\ q.stale = {} /\ UNCHANGED <<form, expenses, given, arrivals>>
      /\ q.target \in 1..Len(forms) /\ q.target \in Nat
  BY <1>1 DEF NextList, At, Sound
<1>3. CASE q.kind + 1 \in Kinds
  <2> DEFINE x == [q EXCEPT !.target = q.target]
             r == Enters(x, q.kind + 1)
  <2>1. x = q
    BY <1>1 DEF Update
  <2>2. request' = [request EXCEPT ![p] = r]
    BY <1>3, <2>1 DEF NextList, Goes
  <2>3. Same(x, r)
    BY <1>1, <1>3, <2>1, EntersIs
  <2>4. Sound(r, Len(travellers), Len(forms), given.detail, arrivals)
    BY <1>1, <1>2, <1>3, EntersSound DEF Forming
  <2> HIDE DEF x, r
  <2> QED
    BY <1>2, <2>1, <2>2, <2>3, <2>4, MovesAlone DEF InFlight, Same
<1>4. CASE q.kind + 1 \notin Kinds
  <2> DEFINE r == [q EXCEPT !.pc = "done"]
  <2>1. /\ r \in Update /\ Same(q, r) /\ r.pc = "done" /\ r.target = q.target
        /\ r.kind = q.kind /\ r.keep = q.keep /\ r.new = q.new /\ r.stale = q.stale
    BY <1>1 DEF Update, Same, PCs
  <2>2. request' = [request EXCEPT ![p] = r]
    BY <1>4 DEF NextList, Goes
  <2> HIDE DEF r
  <2>3. Sound(r, Len(travellers), Len(forms), given.detail, arrivals)
    BY <1>1, <1>2, <2>1 DEF Sound, Same, Early, Forming
  <2> QED
    BY <1>2, <2>1, <2>2, <2>3, MovesAlone DEF InFlight, Same
<1> QED
  BY <1>3, <1>4

LEMMA EndInv ==
    ASSUME Inv, NEW p \in Requests, Answer(p) \/ Fail(p)
    PROVE  Inv'
<1>1. request' = [request EXCEPT ![p] = Idle] /\ UNCHANGED <<form, expenses, given, arrivals>>
  BY DEF Answer, Fail, Goes
<1>2. Sound(Idle, Len(travellers), Len(forms), given.detail, arrivals) /\ Idle.pc = "idle"
  BY IdleIs, IdleSound DEF Inv, Base
<1> QED
  BY <1>1, <1>2, MovesAlone

(* The expenses change, and nothing of the form. *)
LEMMA ExpensesMove ==
    ASSUME Inv, NEW p \in Requests, NEW r, request' = [request EXCEPT ![p] = r],
           UNCHANGED <<form, arrivals>>,
           Sound(r, Len(travellers), Len(forms), given.detail, arrivals),
           r.pc # "idle", InFlight(p), Same(request[p], r),
           given' \in [list : Nat, receipt : Nat, detail : [Kinds -> Nat]],
           given'.detail = given.detail,
           lists' \subseteq [id : 1..given'.list, by : 1..arrivals],
           receipts' \subseteq [id : 1..given'.receipt, list : Ids(lists'), by : 1..arrivals]
    PROVE  Inv'
<1>1. travellers' = travellers /\ forms' = forms /\ details' = details /\ arrivals' = arrivals
  BY DEF form
<1>2. Base'
  BY <1>1 DEF Inv, Base, Ids
<1>3. /\ Len(travellers) \in Nat /\ Len(forms) \in Nat
      /\ \A k \in Kinds : given.detail[k] \in Nat
  BY UpdateFacts
<1>4. /\ Len(travellers) <= Len(travellers') /\ Len(forms) <= Len(forms')
      /\ \A k \in Kinds : given.detail[k] <= given'.detail[k]
  BY <1>1, <1>3
<1>5. Sound(r, Len(travellers'), Len(forms'), given'.detail, arrivals)
  BY <1>1
<1> QED
  BY <1>1, <1>2, <1>4, <1>5, Moves DEF Same

LEMMA ExpenseTypes ==
    ASSUME Inv
    PROVE  /\ given \in [list : Nat, receipt : Nat, detail : [Kinds -> Nat]]
           /\ lists \subseteq [id : 1..given.list, by : 1..arrivals]
           /\ receipts \subseteq [id : 1..given.receipt, list : Ids(lists), by : 1..arrivals]
BY DEF Inv, Base

LEMMA DeleteReceiptsInv ==
    ASSUME Inv, NEW p \in Requests, DeleteReceipts(p)
    PROVE  Inv'
<1> DEFINE q == request[p]
           r == [q EXCEPT !.pc = "purge", !.stale = {}]
<1>1. q \in Update /\ Sound(q, Len(travellers), Len(forms), given.detail, arrivals)
  BY UpdateFacts
<1>2. /\ q.pc = "receipts" /\ request' = [request EXCEPT ![p] = r]
      /\ UNCHANGED <<form, lists, given, arrivals>>
      /\ receipts' \subseteq receipts
  BY DEF DeleteReceipts, At, Goes
<1>3. /\ r \in Update /\ Same(q, r) /\ r.pc = "purge" /\ r.left = q.left /\ r.stale = {}
      /\ r.fresh = q.fresh /\ r.kind = q.kind /\ r.keep = q.keep /\ r.new = q.new
  BY <1>1 DEF Update, Same, PCs, Early
<1> HIDE DEF r
<1>4. Sound(r, Len(travellers), Len(forms), given.detail, arrivals)
  BY <1>1, <1>2, <1>3 DEF Sound, Same, Early, Forming
<1> QED
  BY <1>2, <1>3, <1>4, ExpenseTypes, ExpensesMove DEF InFlight

LEMMA DeleteListsInv ==
    ASSUME Inv, NEW p \in Requests, DeleteLists(p)
    PROVE  Inv'
<1> DEFINE q == request[p]
           r == IF q.left = <<>> THEN PastExpenses(q) ELSE [q EXCEPT !.pc = "insert"]
<1>1. q \in Update /\ Sound(q, Len(travellers), Len(forms), given.detail, arrivals)
  BY UpdateFacts
<1>2. /\ q.pc = "purge" /\ request' = [request EXCEPT ![p] = r]
      /\ UNCHANGED <<form, receipts, given, arrivals>>
      /\ lists' = {} /\ receipts = {}
  BY DEF DeleteLists, DeleteListsUnchecked, At, Goes
<1>3. /\ Sound(r, Len(travellers), Len(forms), given.detail, arrivals)
      /\ Same(q, r) /\ r.pc # "idle"
  <2>1. CASE q.left = <<>>
    <3>3. /\ q.by # 0 /\ q.content \in Contents /\ ~ q.fresh /\ q.stale = {}
          /\ q.content.form => q.body.name \in Names
      BY <1>1, <1>2 DEF Sound, Early
    <3>1. Sound(PastExpenses(q), Len(travellers), Len(forms), given.detail, arrivals)
      BY <1>1, <3>3, PastSound
    <3>2. Same(q, PastExpenses(q)) /\ PastExpenses(q).pc \in {"form", "done"}
      BY <1>1, PastIs
    <3> QED
      BY <2>1, <3>1, <3>2
  <2>2. CASE q.left # <<>>
    <3> DEFINE x == [q EXCEPT !.pc = "insert"]
    <3>1. /\ x \in Update /\ Same(q, x) /\ x.pc = "insert" /\ x.left = q.left
          /\ x.stale = q.stale /\ x.fresh = q.fresh /\ x.kind = q.kind
          /\ x.keep = q.keep /\ x.new = q.new
      BY <1>1 DEF Update, Same, PCs, Early
    <3>2. r = x
      BY <2>2
    <3> HIDE DEF x, r
    <3>3. Sound(x, Len(travellers), Len(forms), given.detail, arrivals)
      BY <1>1, <1>2, <2>2, <3>1 DEF Sound, Same, Early, Forming
    <3> QED
      BY <3>1, <3>2, <3>3
  <2> QED
    BY <2>1, <2>2
<1> HIDE DEF r
<1>4. /\ lists' \subseteq [id : 1..given'.list, by : 1..arrivals]
      /\ receipts' \subseteq [id : 1..given'.receipt, list : Ids(lists'), by : 1..arrivals]
      /\ given' = given
  BY <1>2
<1> QED
  BY <1>2, <1>3, <1>4, ExpenseTypes, ExpensesMove DEF InFlight

LEMMA CreateExpenseInv ==
    ASSUME Inv, NEW p \in Requests, CreateExpense(p)
    PROVE  Inv'
<1> DEFINE q == request[p]
           x == [q EXCEPT !.target = given'.list]
           r == Inserted(x)
<1>1. q \in Update /\ Sound(q, Len(travellers), Len(forms), given.detail, arrivals)
  BY UpdateFacts
<1>2. /\ q.pc = "insert" /\ request' = [request EXCEPT ![p] = r]
      /\ UNCHANGED <<form, receipts, arrivals>>
      /\ given' = [given EXCEPT !.list = given.list + 1]
      /\ lists' = lists \cup {[id |-> given'.list, by |-> q.by]}
  BY DEF CreateExpense, At, Goes
<1>3. /\ given' \in [list : Nat, receipt : Nat, detail : [Kinds -> Nat]]
      /\ given'.detail = given.detail /\ given'.list = given.list + 1
      /\ given'.receipt = given.receipt /\ given'.list \in Nat /\ given.list \in Nat
  BY <1>2, ExpenseTypes
<1>4. x \in Update /\ Same(q, x) /\ x.left # <<>>
  BY <1>1, <1>2, <1>3 DEF Update, Same, Sound
<1>5. Same(x, r) /\ r.pc # "idle"
  <2>1. x.pc = q.pc
    BY <1>1 DEF Update
  <2> HIDE DEF x
  <2> QED
    BY <1>2, <1>4, <2>1, InsertedIs
<1>6. Sound(r, Len(travellers), Len(forms), given.detail, arrivals)
  BY <1>1, <1>2, <1>3, InsertedSound
<1> HIDE DEF x, r
<1>7. lists' \subseteq [id : 1..given'.list, by : 1..arrivals]
  <2>1. q.by \in 1..arrivals
    BY <1>2, UpdateFacts DEF InFlight
  <2>2. 1..given.list \subseteq 1..given'.list /\ given'.list \in 1..given'.list
    BY <1>3
  <2> QED
    BY <1>2, <2>1, <2>2, ExpenseTypes
<1>8. receipts' \subseteq [id : 1..given'.receipt, list : Ids(lists'), by : 1..arrivals]
  <2>1. Ids(lists) \subseteq Ids(lists')
    BY <1>2 DEF Ids
  <2> QED
    BY <1>2, <1>3, <2>1, ExpenseTypes
<1> QED
  BY <1>2, <1>3, <1>4, <1>5, <1>6, <1>7, <1>8, ExpensesMove DEF InFlight, Same

LEMMA CreateReceiptInv ==
    ASSUME Inv, NEW p \in Requests, CreateReceipt(p)
    PROVE  Inv'
<1> DEFINE q == request[p]
           x == [q EXCEPT !.target = q.target]
           r == Inserted(x)
<1>1. q \in Update /\ Sound(q, Len(travellers), Len(forms), given.detail, arrivals)
      /\ x = q /\ q.target \in Nat \cup {Nil}
  BY UpdateFacts DEF Update
<1>2. /\ q.pc = "insert" /\ request' = [request EXCEPT ![p] = r]
      /\ UNCHANGED <<form, lists, arrivals>> /\ q.target \in Ids(lists)
      /\ given' = [given EXCEPT !.receipt = given.receipt + 1]
      /\ receipts' = receipts \cup {[id |-> given'.receipt, list |-> q.target, by |-> q.by]}
  BY <1>1 DEF CreateReceipt, At, Goes
<1>3. /\ given' \in [list : Nat, receipt : Nat, detail : [Kinds -> Nat]]
      /\ given'.detail = given.detail /\ given'.receipt = given.receipt + 1
      /\ given'.list = given.list /\ given'.receipt \in Nat /\ given.receipt \in Nat
  BY <1>2, ExpenseTypes
<1>4. Same(q, r) /\ r.pc # "idle"
  BY <1>1, <1>2, InsertedIs DEF Sound
<1>5. Sound(r, Len(travellers), Len(forms), given.detail, arrivals)
  BY <1>1, <1>2, InsertedSound
<1> HIDE DEF x, r
<1>6. receipts' \subseteq [id : 1..given'.receipt, list : Ids(lists'), by : 1..arrivals]
  <2>1. q.by \in 1..arrivals
    BY <1>2, UpdateFacts DEF InFlight
  <2>2. 1..given.receipt \subseteq 1..given'.receipt /\ given'.receipt \in 1..given'.receipt
    BY <1>3
  <2>3. Ids(lists') = Ids(lists)
    BY <1>2 DEF Ids
  <2> QED
    BY <1>2, <2>1, <2>2, <2>3, ExpenseTypes
<1>7. lists' \subseteq [id : 1..given'.list, by : 1..arrivals]
  BY <1>2, <1>3, ExpenseTypes
<1> QED
  BY <1>2, <1>3, <1>4, <1>5, <1>6, <1>7, ExpensesMove DEF InFlight

(* The form changes, and nothing of the expenses. *)
LEMMA FormMoves ==
    ASSUME Inv, NEW p \in Requests, NEW r, request' = [request EXCEPT ![p] = r],
           UNCHANGED <<expenses, arrivals>>,
           given' \in [list : Nat, receipt : Nat, detail : [Kinds -> Nat]],
           given'.list = given.list, given'.receipt = given.receipt,
           \A k \in Kinds : given.detail[k] <= given'.detail[k],
           travellers' \in Seq(Names), Len(travellers) <= Len(travellers'),
           forms' \in Seq(DOMAIN travellers'), Len(forms) <= Len(forms'),
           details' \subseteq [id : Nat, kind : Kinds, form : DOMAIN forms', by : 1..arrivals],
           \A d \in details' : d.id \in 1..given'.detail[d.kind],
           Sound(r, Len(travellers'), Len(forms'), given'.detail, arrivals),
           r.pc # "idle", InFlight(p), Same(request[p], r)
    PROVE  Inv'
<1>1. lists' = lists /\ receipts' = receipts /\ arrivals' = arrivals
  BY DEF expenses
<1>2. Base'
  BY <1>1 DEF Inv, Base, Ids
<1> QED
  BY <1>1, <1>2, Moves DEF Same

LEMMA FormTypes ==
    ASSUME Inv
    PROVE  /\ given \in [list : Nat, receipt : Nat, detail : [Kinds -> Nat]]
           /\ travellers \in Seq(Names) /\ forms \in Seq(DOMAIN travellers)
           /\ details \subseteq [id : Nat, kind : Kinds, form : DOMAIN forms, by : 1..arrivals]
           /\ \A d \in details : d.id \in 1..given.detail[d.kind]
           /\ \A k \in Kinds : given.detail[k] <= given.detail[k]
           /\ Len(travellers) <= Len(travellers) /\ Len(forms) <= Len(forms)
<1>1. /\ given \in [list : Nat, receipt : Nat, detail : [Kinds -> Nat]]
      /\ travellers \in Seq(Names) /\ forms \in Seq(DOMAIN travellers)
      /\ details \subseteq [id : Nat, kind : Kinds, form : DOMAIN forms, by : 1..arrivals]
      /\ \A d \in details : d.id \in 1..given.detail[d.kind]
  BY DEF Inv, Base
<1>2. Len(travellers) \in Nat /\ Len(forms) \in Nat
  BY <1>1, LenProperties
<1>3. \A k \in Kinds : given.detail[k] \in Nat
  BY <1>1
<1> QED
  BY <1>1, <1>2, <1>3

LEMMA CreateTravellerInv ==
    ASSUME Inv, NEW p \in Requests, CreateTraveller(p)
    PROVE  Inv'
<1> DEFINE q == request[p]
           r == [q EXCEPT !.pc = "newForm", !.target = Len(travellers')]
<1>1. q \in Update /\ Sound(q, Len(travellers), Len(forms), given.detail, arrivals)
  BY UpdateFacts
<1>2. /\ q.pc = "newTraveller" /\ request' = [request EXCEPT ![p] = r]
      /\ UNCHANGED <<forms, details, expenses, given, arrivals>>
      /\ travellers' = Append(travellers, q.body.name)
  BY DEF CreateTraveller, At, Goes
<1>3. q.body.name \in Names
  BY <1>1, <1>2 DEF Sound, Forming
<1>4. /\ travellers' \in Seq(Names) /\ Len(travellers') = Len(travellers) + 1
      /\ Len(travellers) \in Nat
      /\ DOMAIN travellers = 1..Len(travellers) /\ DOMAIN travellers' = 1..Len(travellers')
  BY <1>2, <1>3, FormTypes, AppendProperties, LenProperties
<1>5. Len(travellers') \in Nat /\ Len(travellers') \in 1..Len(travellers')
      /\ DOMAIN travellers \subseteq DOMAIN travellers' /\ Len(travellers) <= Len(travellers')
  BY <1>4
<1>6. forms' \in Seq(DOMAIN travellers')
  BY <1>2, <1>5, FormTypes
<1>7. /\ r \in Update /\ Same(q, r) /\ r.pc = "newForm" /\ r.target = Len(travellers')
      /\ r.kind = q.kind /\ r.keep = q.keep /\ r.new = q.new /\ r.stale = q.stale
  BY <1>1, <1>5 DEF Update, Same, PCs, Forming
<1> HIDE DEF r
<1>8. Sound(r, Len(travellers'), Len(forms'), given'.detail, arrivals)
  BY <1>1, <1>2, <1>5, <1>7 DEF Sound, Same, Early, Forming
<1> QED
  BY <1>2, <1>4, <1>5, <1>6, <1>7, <1>8, FormTypes, FormMoves DEF InFlight

LEMMA CreateFormInv ==
    ASSUME Inv, NEW p \in Requests, CreateForm(p)
    PROVE  Inv'
<1> DEFINE q == request[p]
           x == [q EXCEPT !.target = Len(forms')]
           r == Enters(x, 1)
<1>1. q \in Update /\ Sound(q, Len(travellers), Len(forms), given.detail, arrivals)
      /\ DOMAIN travellers = 1..Len(travellers)
  BY UpdateFacts
<1>2. /\ q.pc = "newForm" /\ request' = [request EXCEPT ![p] = r]
      /\ UNCHANGED <<travellers, details, expenses, given, arrivals>>
      /\ forms' = Append(forms, q.target)
  BY DEF CreateForm, At, Goes
<1>3. q.target \in DOMAIN travellers /\ q.stale = {} /\ q.pc \in Forming /\ 1 \in Kinds
  BY <1>1, <1>2, KindsAre DEF Sound, Forming
<1>4. /\ forms' \in Seq(DOMAIN travellers) /\ Len(forms') = Len(forms) + 1
      /\ Len(forms) \in Nat
      /\ DOMAIN forms = 1..Len(forms) /\ DOMAIN forms' = 1..Len(forms')
  BY <1>2, <1>3, FormTypes, AppendProperties, LenProperties
<1>5. /\ Len(forms') \in Nat /\ Len(forms') \in 1..Len(forms')
      /\ DOMAIN forms \subseteq DOMAIN forms' /\ Len(forms) <= Len(forms')
  BY <1>4
<1>6. Sound(q, Len(travellers'), Len(forms'), given'.detail, arrivals)
  <2>1. 1..Len(forms) \subseteq 1..Len(forms')
    BY <1>4
  <2>2. PICK T, F, F2, g, n : /\ T = Len(travellers) /\ F = Len(forms) /\ F2 = Len(forms')
                              /\ g = given.detail /\ n = arrivals
    OBVIOUS
  <2>3. Sound(q, T, F2, g, n)
    BY <1>1, <2>1, <2>2, SoundGrows
  <2> QED
    BY <1>2, <2>2, <2>3
<1>7. Sound(r, Len(travellers'), Len(forms'), given'.detail, arrivals)
  BY <1>3, <1>5, <1>6, EntersSound
<1>8. x \in Update /\ Same(q, x)
  BY <1>1, <1>5 DEF Update, Same
<1>9. Same(x, r) /\ r.pc # "idle"
  BY <1>3, <1>8, EntersIs
<1>10. details' \subseteq [id : Nat, kind : Kinds, form : DOMAIN forms', by : 1..arrivals]
  BY <1>2, <1>5, FormTypes
<1> HIDE DEF x, r
<1>11. /\ forms' \in Seq(DOMAIN travellers') /\ travellers' \in Seq(Names)
       /\ Len(travellers) <= Len(travellers')
       /\ given' \in [list : Nat, receipt : Nat, detail : [Kinds -> Nat]]
       /\ given'.list = given.list /\ given'.receipt = given.receipt
       /\ \A k \in Kinds : given.detail[k] <= given'.detail[k]
       /\ \A d \in details' : d.id \in 1..given'.detail[d.kind]
  BY <1>2, <1>4, FormTypes
<1> QED
  BY <1>2, <1>5, <1>7, <1>8, <1>9, <1>10, <1>11, FormMoves DEF InFlight, Same

(* One row of the details changes. *)
LEMMA DetailMoves ==
    ASSUME Inv, NEW p \in Requests, NEW r, request' = [request EXCEPT ![p] = r],
           UNCHANGED <<travellers, forms, expenses, given, arrivals>>,
           \A d \in details' : \/ d \in details
                               \/ \E e \in details : d = [e EXCEPT !.by = request[p].by],
           Sound(r, Len(travellers), Len(forms), given.detail, arrivals),
           r.pc # "idle", InFlight(p), Same(request[p], r)
    PROVE  Inv'
<1>1. request[p].by \in 1..arrivals
  BY UpdateFacts
<1>2. ASSUME NEW d \in details'
      PROVE  /\ d \in [id : Nat, kind : Kinds, form : DOMAIN forms, by : 1..arrivals]
             /\ d.id \in 1..given.detail[d.kind]
  <2>1. CASE d \in details
    BY <2>1, FormTypes
  <2>2. ASSUME NEW e \in details, d = [e EXCEPT !.by = request[p].by]
        PROVE  /\ d \in [id : Nat, kind : Kinds, form : DOMAIN forms, by : 1..arrivals]
               /\ d.id \in 1..given.detail[d.kind]
    <3>1. /\ e \in [id : Nat, kind : Kinds, form : DOMAIN forms, by : 1..arrivals]
          /\ e.id \in 1..given.detail[e.kind]
      BY FormTypes
    <3> QED
      BY <1>1, <2>2, <3>1
  <2> QED
    BY <2>1, <2>2
<1>3. /\ details' \subseteq [id : Nat, kind : Kinds, form : DOMAIN forms', by : 1..arrivals]
      /\ \A d \in details' : d.id \in 1..given'.detail[d.kind]
  BY <1>2
<1>4. /\ forms' \in Seq(DOMAIN travellers') /\ travellers' \in Seq(Names)
      /\ Len(travellers) <= Len(travellers') /\ Len(forms) <= Len(forms')
      /\ given' \in [list : Nat, receipt : Nat, detail : [Kinds -> Nat]]
      /\ given'.list = given.list /\ given'.receipt = given.receipt
      /\ \A k \in Kinds : given.detail[k] <= given'.detail[k]
  BY FormTypes
<1> QED
  BY <1>3, <1>4, FormMoves

LEMMA DeleteDetailInv ==
    ASSUME Inv, NEW p \in Requests, DeleteDetail(p)
    PROVE  Inv'
<1> DEFINE q == request[p]
<1>1. q \in Update /\ Sound(q, Len(travellers), Len(forms), given.detail, arrivals)
  BY UpdateFacts
<1>2. PICK id \in q.stale :
          /\ request' = [request EXCEPT ![p] = [q EXCEPT !.stale = q.stale \ {id}]]
          /\ details' = {d \in details : ~ (d.id = id /\ d.kind = q.kind)}
  BY DEF DeleteDetail, Goes
<1>3. q.pc = "sync" /\ UNCHANGED <<travellers, forms, expenses, given, arrivals>>
  BY DEF DeleteDetail, At
<1> DEFINE r == [q EXCEPT !.stale = q.stale \ {id}]
<1>4. /\ r \in Update /\ Same(q, r) /\ r.pc = "sync" /\ r.target = q.target
      /\ r.kind = q.kind /\ r.keep = q.keep /\ r.new = q.new
  BY <1>1, <1>3 DEF Update, Same
<1>5. request' = [request EXCEPT ![p] = r]
  BY <1>2
<1> HIDE DEF r
<1>6. Sound(r, Len(travellers), Len(forms), given.detail, arrivals)
  BY <1>1, <1>3, <1>4 DEF Sound, Same, Early, Forming
<1> QED
  BY <1>2, <1>3, <1>4, <1>5, <1>6, DetailMoves DEF InFlight

LEMMA UpdateDetailInv ==
    ASSUME Inv, NEW p \in Requests, UpdateDetail(p)
    PROVE  Inv'
<1> DEFINE q == request[p]
<1>1. q \in Update /\ Sound(q, Len(travellers), Len(forms), given.detail, arrivals)
  BY UpdateFacts
<1>2. PICK id \in q.keep :
          /\ request' = [request EXCEPT ![p] = [q EXCEPT !.keep = q.keep \ {id}]]
          /\ details' = {IF d.id = id /\ d.kind = q.kind THEN [d EXCEPT !.by = q.by] ELSE d :
                            d \in details}
  BY DEF UpdateDetail, Goes
<1>3. q.pc = "sync" /\ UNCHANGED <<travellers, forms, expenses, given, arrivals>>
  BY DEF UpdateDetail, At
<1> DEFINE r == [q EXCEPT !.keep = q.keep \ {id}]
<1>4. /\ r \in Update /\ Same(q, r) /\ r.pc = "sync" /\ r.target = q.target
      /\ r.kind = q.kind /\ r.keep \subseteq q.keep /\ r.new = q.new /\ r.stale = q.stale
  BY <1>1, <1>3 DEF Update, Same
<1>5. request' = [request EXCEPT ![p] = r]
  BY <1>2
<1> HIDE DEF r
<1>6. Sound(r, Len(travellers), Len(forms), given.detail, arrivals)
  BY <1>1, <1>3, <1>4 DEF Sound, Same, Early, Forming
<1>7. \A d \in details' : d \in details \/ \E e \in details : d = [e EXCEPT !.by = q.by]
  BY <1>2
<1> QED
  BY <1>3, <1>4, <1>5, <1>6, <1>7, DetailMoves DEF InFlight

LEMMA CreateDetailInv ==
    ASSUME Inv, NEW p \in Requests, CreateDetail(p)
    PROVE  Inv'
<1> DEFINE q == request[p]
           r == [q EXCEPT !.new = q.new - 1]
           row == [id |-> given'.detail[q.kind], kind |-> q.kind,
                   form |-> q.target, by |-> q.by]
<1>1. /\ q \in Update /\ Sound(q, Len(travellers), Len(forms), given.detail, arrivals)
      /\ q.kind \in Kinds /\ DOMAIN forms = 1..Len(forms)
  BY UpdateFacts
<1>2. /\ q.pc = "sync" /\ request' = [request EXCEPT ![p] = r] /\ q.new > 0
      /\ UNCHANGED <<travellers, forms, expenses, arrivals>>
      /\ given' = [given EXCEPT !.detail[q.kind] = given.detail[q.kind] + 1]
      /\ details' = details \cup {row}
  BY DEF CreateDetail, At, Goes
<1>3. /\ given' \in [list : Nat, receipt : Nat, detail : [Kinds -> Nat]]
      /\ given'.list = given.list /\ given'.receipt = given.receipt
      /\ given'.detail[q.kind] = given.detail[q.kind] + 1
      /\ \A k \in Kinds \ {q.kind} : given'.detail[k] = given.detail[k]
      /\ \A k \in Kinds : given.detail[k] \in Nat
  <2> DEFINE g == [given.detail EXCEPT ![q.kind] = given.detail[q.kind] + 1]
  <2>1. given.detail \in [Kinds -> Nat]
    BY FormTypes
  <2>2. /\ g \in [Kinds -> Nat] /\ g[q.kind] = given.detail[q.kind] + 1
        /\ \A k \in Kinds \ {q.kind} : g[k] = given.detail[k]
    BY <1>1, <2>1
  <2>3. given' = [given EXCEPT !.detail = g]
    BY <1>2
  <2> HIDE DEF g
  <2>4. /\ given'.detail = g /\ given'.list = given.list /\ given'.receipt = given.receipt
        /\ given' \in [list : Nat, receipt : Nat, detail : [Kinds -> Nat]]
    BY <2>2, <2>3, FormTypes
  <2> QED
    BY <2>1, <2>2, <2>4
<1>4. \A k \in Kinds : given.detail[k] <= given'.detail[k]
                       /\ 1..given.detail[k] \subseteq 1..given'.detail[k]
  BY <1>1, <1>3
<1>5. q.by \in 1..arrivals /\ q.target \in DOMAIN forms
  BY <1>1, <1>2, UpdateFacts DEF InFlight, Sound
<1>6. /\ row \in [id : Nat, kind : Kinds, form : DOMAIN forms, by : 1..arrivals]
      /\ row.id \in 1..given'.detail[row.kind]
  BY <1>1, <1>3, <1>5
<1> HIDE DEF row
<1>7. /\ details' \subseteq [id : Nat, kind : Kinds, form : DOMAIN forms', by : 1..arrivals]
      /\ \A d \in details' : d.id \in 1..given'.detail[d.kind]
  <2>1. \A d \in details : d.kind \in Kinds
    BY FormTypes
  <2> QED
    BY <1>2, <1>4, <1>6, <2>1, FormTypes
<1>8. q.new \in 0..MaxNew
  BY <1>1 DEF Sound
<1>9. q.new - 1 \in 0..MaxNew /\ q.new - 1 \in Nat
  BY <1>2, <1>8, ReportAssumption
<1>10. /\ r \in Update /\ Same(q, r) /\ r.pc = "sync" /\ r.target = q.target
       /\ r.kind = q.kind /\ r.keep = q.keep /\ r.new = q.new - 1
  BY <1>1, <1>2, <1>9 DEF Update, Same
<1> HIDE DEF r
<1>11. Sound(r, Len(travellers), Len(forms), given'.detail, arrivals)
  <2>1. Sound(r, Len(travellers), Len(forms), given.detail, arrivals)
    BY <1>1, <1>2, <1>9, <1>10 DEF Sound, Same, Early, Forming
  <2>2. PICK T, F, g, g2, n : /\ T = Len(travellers) /\ F = Len(forms)
                              /\ g = given.detail /\ g2 = given'.detail /\ n = arrivals
    OBVIOUS
  <2>3. Sound(r, T, F, g2, n)
    BY <1>4, <2>1, <2>2, SoundGrows
  <2> QED
    BY <2>2, <2>3
<1>12. /\ forms' \in Seq(DOMAIN travellers') /\ travellers' \in Seq(Names)
       /\ Len(travellers) <= Len(travellers') /\ Len(forms) <= Len(forms')
       /\ Sound(r, Len(travellers'), Len(forms'), given'.detail, arrivals)
  BY <1>2, <1>11, FormTypes
<1>13. /\ InFlight(p) /\ r.pc # "idle" /\ UNCHANGED <<expenses, arrivals>>
       /\ \A k \in Kinds : given.detail[k] <= given'.detail[k]
  BY <1>2, <1>4, <1>10 DEF InFlight
<1> QED
  BY <1>2, <1>3, <1>7, <1>10, <1>12, <1>13, FormMoves

(* The bodies of clients. *)
LEMMA BodyIs ==
    ASSUME Inv, NEW b \in Bodies
    PROVE  /\ b \in Body /\ b.name \in Names
           /\ \A k \in Kinds : b.keep[k] \subseteq 1..given.detail[k]
           /\ b.traveller = Nil => \A k \in Kinds : b.keep[k] = {}
<1>1. CASE b \in {[name |-> n, traveller |-> Nil, keep |-> NoBody.keep, new |-> w] :
                      n \in Names, w \in [Kinds -> 0..MaxNew]}
  <2>1. NoBody.keep \in [Kinds -> SUBSET Nat] /\ \A k \in Kinds : NoBody.keep[k] = {}
    BY NoBodyIs DEF Body
  <2> QED
    BY <1>1, <2>1 DEF Body
<1>2. CASE b \notin {[name |-> n, traveller |-> Nil, keep |-> NoBody.keep, new |-> w] :
                         n \in Names, w \in [Kinds -> 0..MaxNew]}
  <2>1. PICK t \in DOMAIN travellers, w \in [Kinds -> 0..MaxNew],
             c \in [Kinds -> SUBSET (1..MaxUpdates * MaxNew)] :
            /\ \A k \in Kinds : c[k] \subseteq 1..given.detail[k]
            /\ b = [name |-> travellers[t], traveller |-> t, keep |-> c, new |-> w]
    BY <1>2 DEF Bodies
  <2>2. travellers \in Seq(Names) /\ DOMAIN travellers = 1..Len(travellers)
        /\ Len(travellers) \in Nat
    BY FormTypes, LenProperties
  <2>3. travellers[t] \in Names /\ t \in Nat
    BY <2>2, ElementOfSeq
  <2>4. c \in [Kinds -> SUBSET Nat]
    BY <2>1
  <2>5. t # Nil
    BY <2>3, ReportAssumption
  <2> QED
    BY <2>1, <2>3, <2>4, <2>5 DEF Body
<1> QED
  BY <1>1, <1>2

(* An update comes in, and is met by those in flight. *)
Met(q, n) == [q EXCEPT !.met = @ \cup {n}]

Others(p) == {request[r].by : r \in {s \in Requests : InFlight(s)}}

LEMMA ArriveIs ==
    ASSUME Inv, NEW p \in Requests, Arrive(p)
    PROVE  \E c \in Contents, b \in Body, q \in Update :
               /\ c.form => b \in Bodies
               /\ q = [Idle EXCEPT !.by = arrivals + 1, !.content = c, !.body = b,
                                   !.met = Others(p)]
               /\ q.pc = "idle" /\ q.by = arrivals + 1 /\ q.content = c /\ q.body = b
               /\ q.met = Others(p) /\ q.left = <<>> /\ q.fresh = FALSE /\ q.kind = 1
               /\ q.stale = {} /\ q.keep = {} /\ q.new = 0
               /\ \A k \in Kinds : b.keep[k] \subseteq 1..given.detail[k]
               /\ request'[p] = IF c.inserts = Nil THEN PastExpenses(q)
                                ELSE [q EXCEPT !.pc = "lists", !.left = c.inserts]
               /\ \A r \in Requests \ {p} :
                      request'[r] = IF InFlight(r) THEN Met(request[r], arrivals + 1)
                                    ELSE request[r]
               /\ request' = [r \in Requests |-> request'[r]]
<1>1. PICK c \in Contents : \E b \in IF c.form THEN Bodies ELSE {NoBody} :
          LET q == [Idle EXCEPT !.by = arrivals + 1, !.content = c, !.body = b,
                                !.met = {request[r].by : r \in {s \in Requests : InFlight(s)}}]
          IN  request' = [r \in Requests |->
                  IF r = p
                  THEN IF c.inserts = Nil THEN PastExpenses(q)
                       ELSE [q EXCEPT !.pc = "lists", !.left = c.inserts]
                  ELSE IF InFlight(r) THEN [request[r] EXCEPT !.met = @ \cup {arrivals + 1}]
                  ELSE request[r]]
  BY DEF Arrive
<1>2. PICK b \in IF c.form THEN Bodies ELSE {NoBody} :
          LET q == [Idle EXCEPT !.by = arrivals + 1, !.content = c, !.body = b,
                                !.met = Others(p)]
          IN  request' = [r \in Requests |->
                  IF r = p
                  THEN IF c.inserts = Nil THEN PastExpenses(q)
                       ELSE [q EXCEPT !.pc = "lists", !.left = c.inserts]
                  ELSE IF InFlight(r) THEN Met(request[r], arrivals + 1)
                  ELSE request[r]]
  BY <1>1 DEF Others, Met
<1> DEFINE q == [Idle EXCEPT !.by = arrivals + 1, !.content = c, !.body = b,
                             !.met = Others(p)]
<1>3. b \in Body /\ \A k \in Kinds : b.keep[k] \subseteq 1..given.detail[k]
  <2>1. CASE c.form
    BY <1>2, <2>1, BodyIs
  <2>2. CASE ~ c.form
    BY <1>2, <2>2, NoBodyIs
  <2> QED
    BY <2>1, <2>2
<1>4. Others(p) \subseteq Nat /\ arrivals + 1 \in Nat
  BY UpdateFacts DEF Others, Update
<1>5. /\ q \in Update /\ q.pc = "idle" /\ q.by = arrivals + 1 /\ q.content = c /\ q.body = b
      /\ q.met = Others(p) /\ q.left = <<>> /\ q.fresh = FALSE /\ q.kind = 1
      /\ q.stale = {} /\ q.keep = {} /\ q.new = 0
  BY <1>3, <1>4, IdleIs DEF Update
<1>6. request' = [r \in Requests |->
                  IF r = p
                  THEN IF c.inserts = Nil THEN PastExpenses(q)
                       ELSE [q EXCEPT !.pc = "lists", !.left = c.inserts]
                  ELSE IF InFlight(r) THEN Met(request[r], arrivals + 1)
                  ELSE request[r]]
  BY <1>2
<1>7. q = [Idle EXCEPT !.by = arrivals + 1, !.content = c, !.body = b, !.met = Others(p)]
  OBVIOUS
<1>8. c.form => b \in Bodies
  OBVIOUS
<1> HIDE DEF q
<1> QED
  BY <1>3, <1>5, <1>6, <1>7, <1>8

LEMMA ArriveInv ==
    ASSUME Inv, NEW p \in Requests, Arrive(p)
    PROVE  Inv'
<1>0. PICK c \in Contents, b \in Body, q \in Update :
               /\ c.form => b \in Bodies
               /\ q = [Idle EXCEPT !.by = arrivals + 1, !.content = c, !.body = b,
                                   !.met = Others(p)]
               /\ q.pc = "idle" /\ q.by = arrivals + 1 /\ q.content = c /\ q.body = b
               /\ q.met = Others(p) /\ q.left = <<>> /\ q.fresh = FALSE /\ q.kind = 1
               /\ q.stale = {} /\ q.keep = {} /\ q.new = 0
               /\ \A k \in Kinds : b.keep[k] \subseteq 1..given.detail[k]
               /\ request'[p] = IF c.inserts = Nil THEN PastExpenses(q)
                                ELSE [q EXCEPT !.pc = "lists", !.left = c.inserts]
               /\ \A r \in Requests \ {p} :
                      request'[r] = IF InFlight(r) THEN Met(request[r], arrivals + 1)
                                    ELSE request[r]
               /\ request' = [r \in Requests |-> request'[r]]
  BY ArriveIs, Zenon
<1> DEFINE T == Len(travellers)
           F == Len(forms)
           g == given.detail
           n == arrivals + 1
<1>1. /\ arrivals' = n /\ UNCHANGED <<form, expenses, given>>
      /\ ~ InFlight(p)
  BY DEF Arrive, At, InFlight
<1>2. arrivals \in Nat /\ n \in Nat /\ T \in Nat /\ F \in Nat /\ g \in [Kinds -> Nat]
  BY UpdateFacts
<1>3. /\ c.form => b \in Bodies
      /\ q.pc = "idle" /\ q.by = n /\ q.content = c /\ q.body = b
      /\ q.met = Others(p) /\ q.left = <<>> /\ q.fresh = FALSE /\ q.kind = 1
      /\ q.stale = {} /\ q.keep = {} /\ q.new = 0
      /\ \A k \in Kinds : b.keep[k] \subseteq 1..g[k]
      /\ request'[p] = IF c.inserts = Nil THEN PastExpenses(q)
                       ELSE [q EXCEPT !.pc = "lists", !.left = c.inserts]
      /\ \A r \in Requests \ {p} :
             request'[r] = IF InFlight(r) THEN Met(request[r], n)
                           ELSE request[r]
      /\ request' = [r \in Requests |-> request'[r]]
  BY <1>0
<1> HIDE DEF n, T, F, g
<1>4. Others(p) \subseteq 1..n /\ n \in 1..n /\ 1..arrivals \subseteq 1..n
      /\ 0..arrivals \subseteq 0..n
  <2>1. Others(p) \subseteq 1..arrivals
    BY UpdateFacts DEF Others
  <2> QED
    BY <1>2, <2>1 DEF n
<1>5. c.form => b.name \in Names
  BY <1>3, BodyIs
<1>6. Sound(q, T, F, g, n)
  BY <1>2, <1>3, <1>4, ReportAssumption DEF Sound, Early, Forming
<1>7. /\ Sound(request'[p], T, F, g, n) /\ request'[p].by = n
      /\ request'[p].met = Others(p)
  <2>1. CASE c.inserts = Nil
    <3>1. q.by # 0
      BY <1>2, <1>3 DEF n
    <3>2. Sound(PastExpenses(q), T, F, g, n)
      BY <1>3, <1>5, <1>6, <3>1, PastSound
    <3>3. Same(q, PastExpenses(q))
      BY PastIs
    <3> QED
      BY <1>3, <2>1, <3>2, <3>3 DEF Same
  <2>2. CASE c.inserts # Nil
    <3> DEFINE x == [q EXCEPT !.pc = "lists", !.left = c.inserts]
    <3>1. c.inserts \in Seq({"expense", "receipt"})
      BY <2>2, ReportAssumption
    <3>2. /\ x \in Update /\ Same(q, x) /\ x.pc = "lists" /\ x.left = c.inserts
          /\ x.fresh = q.fresh /\ x.kind = q.kind /\ x.stale = q.stale
          /\ x.keep = q.keep /\ x.new = q.new
      BY <3>1 DEF Update, Same, PCs, Early
    <3>3. request'[p] = x
      BY <1>3, <2>2
    <3> HIDE DEF x
    <3>4. q.by # 0
      BY <1>2, <1>3 DEF n
    <3>5. Sound(x, T, F, g, n)
      BY <1>3, <1>5, <1>6, <2>2, <3>2, <3>4 DEF Sound, Same, Early, Forming
    <3> QED
      BY <1>3, <3>2, <3>3, <3>5 DEF Same
  <2> QED
    BY <2>1, <2>2
<1>8. ASSUME NEW r \in Requests \ {p}
      PROVE  /\ Sound(request'[r], T, F, g, n)
             /\ request'[r].by = request[r].by /\ request'[r].pc = request[r].pc
             /\ InFlight(r) => request'[r].met = request[r].met \cup {n}
  <2> DEFINE o == request[r]
  <2>1. o \in Update /\ Sound(o, T, F, g, arrivals)
    BY UpdateFacts DEF T, F, g
  <2>2. Sound(o, T, F, g, n)
    BY <1>4, <2>1 DEF Sound
  <2>3. CASE InFlight(r)
    <3> DEFINE x == Met(o, n)
    <3>1. /\ x \in Update /\ x.by = o.by /\ x.content = o.content /\ x.body = o.body
          /\ x.pc = o.pc /\ x.left = o.left /\ x.target = o.target /\ x.fresh = o.fresh
          /\ x.kind = o.kind /\ x.stale = o.stale /\ x.keep = o.keep /\ x.new = o.new
          /\ x.met = o.met \cup {n}
      BY <1>2, <2>1 DEF Met, Update
    <3>2. request'[r] = x
      BY <1>3, <2>3
    <3> HIDE DEF x, o
    <3>3. Sound(x, T, F, g, n)
      BY <1>4, <2>2, <3>1 DEF Sound
    <3> QED
      BY <3>1, <3>2, <3>3 DEF o
  <2>4. CASE ~ InFlight(r)
    BY <1>3, <2>2, <2>4
  <2> QED
    BY <2>3, <2>4
<1>9. /\ travellers' = travellers /\ forms' = forms /\ details' = details
      /\ lists' = lists /\ receipts' = receipts /\ given' = given
  BY <1>1 DEF form, expenses
<1>10. Base'
  <2>1. Base /\ arrivals' \in Nat /\ 1..arrivals \subseteq 1..arrivals'
    BY <1>1, <1>2, <1>4 DEF Inv
  <2> QED
    BY <1>9, <2>1 DEF Base, Ids
<1>11. ASSUME NEW r \in Requests
       PROVE  Sound(request'[r], Len(travellers'), Len(forms'), given'.detail, arrivals')
  BY <1>1, <1>7, <1>8, <1>9 DEF T, F, g
<1>12. request' \in [Requests -> Update]
  BY <1>3, <1>7, <1>8 DEF Sound
<1>13. Meetings'
  <2> SUFFICES ASSUME NEW s \in Requests, NEW r \in Requests, s # r,
                      InFlight(s)', InFlight(r)'
               PROVE  request'[r].by \in request'[s].met
    BY DEF Meetings
  <2>1. CASE s = p
    <3>1. InFlight(r) /\ request'[r].by = request[r].by
      BY <1>8, <2>1 DEF InFlight
    <3> QED
      BY <1>7, <2>1, <3>1 DEF Others
  <2>2. CASE r = p
    <3>1. InFlight(s)
      BY <1>8, <2>2 DEF InFlight
    <3> QED
      BY <1>7, <1>8, <2>2, <3>1
  <2>3. CASE s # p /\ r # p
    <3>1. InFlight(s) /\ InFlight(r)
      BY <1>8, <2>3 DEF InFlight
    <3> QED
      BY <1>8, <2>3, <3>1 DEF Inv, Meetings
  <2> QED
    BY <2>1, <2>2, <2>3
<1> QED
  BY <1>10, <1>11, <1>12, <1>13 DEF Inv

LEMMA InvInit == Init => Inv
<1> SUFFICES ASSUME Init PROVE Inv
  OBVIOUS
<1>1. Base
  <2>1. <<>> \in Seq(Names) /\ <<>> \in Seq(DOMAIN <<>>)
    OBVIOUS
  <2> QED
    BY <2>1 DEF Init, Base, Ids
<1>2. request \in [Requests -> Update] /\ \A p \in Requests : request[p] = Idle
  BY IdleIs DEF Init
<1>3. arrivals \in Nat
  BY DEF Init
<1>4. \A p \in Requests :
          Sound(request[p], Len(travellers), Len(forms), given.detail, arrivals)
  BY <1>2, <1>3, IdleSound
<1>5. Meetings
  BY <1>2, IdleIs DEF Meetings, InFlight
<1> QED
  BY <1>1, <1>2, <1>4, <1>5 DEF Inv

LEMMA InvStep == Inv /\ [Next]_vars => Inv'
<1>1. ASSUME Inv, UNCHANGED vars PROVE Inv'
  <2>1. Base' /\ Meetings'
    BY <1>1 DEF vars, form, expenses, Inv, Base, Ids, Meetings, InFlight
  <2> QED
    BY <1>1, <2>1 DEF vars, form, expenses, Inv
<1> QED
  BY <1>1, ArriveInv, EndInv, FindListsInv, DeleteReceiptsInv, DeleteListsInv,
     CreateExpenseInv, CreateReceiptInv, FindFormInv, FindTravellerInv,
     CreateTravellerInv, CreateFormInv, FindCurrentInv, DeleteDetailInv,
     UpdateDetailInv, CreateDetailInv, NextListInv DEF Next

LEMMA Invariance == Spec => []Inv
BY InvInit, InvStep, PTL DEF Spec

(* Types, and the foreign keys: no receipt is left without its expense, no
   detail without its form, whatever updates run together and fail. *)
THEOREM TypeCorrect == Spec => []TypeOK
<1>1. ASSUME Inv PROVE TypeOK
  <2>1. ASSUME NEW p \in Requests
        PROVE  /\ request[p].pc \in PCs
               /\ request[p].by \in 0..arrivals /\ request[p].met \subseteq 1..arrivals
               /\ request[p].kind \in Kinds /\ request[p].new \in 0..MaxNew
               /\ request[p].keep \subseteq 1..given.detail[request[p].kind]
    BY <1>1, UpdateFacts DEF Sound, Update
  <2> QED
    BY <1>1, <2>1 DEF TypeOK, PCs, Early, Forming, Inv, Base
<1> QED
  BY Invariance, <1>1, PTL

-----------------------------------------------------------------------------
(* What an update has dealt with so far: the rows still there of what its body
   holds are its own, or of an update that it met.  Not so the rows it is yet to
   delete or to rewrite. *)

Known(q) == {q.by} \cup q.met

Settled(q, k, D) == \A d \in D : d.kind = k /\ d.form = q.target => d.by \in Known(q)

Recent(q, D, L, R) ==
    /\ q.pc \in {"insert", "done"} \cup Forming /\ q.content.inserts # Nil =>
           \A row \in L \cup R : row.by \in Known(q)
    /\ q.pc \in {"current", "sync"} =>
           \A k \in Kinds : k < q.kind \/ q.fresh => Settled(q, k, D)
    /\ q.pc = "sync" =>
           \A d \in D : d.kind = q.kind /\ d.form = q.target =>
               d.by \in Known(q) \/ d.id \in q.stale \cup q.keep
    /\ q.pc = "done" /\ q.content.form => \A k \in Kinds : Settled(q, k, D)

AllRecent == \A p \in Requests : Recent(request[p], details, lists, receipts)

(* Rows may go, and rows may come of those it knows. *)
LEMMA RecentStands ==
    ASSUME NEW q, NEW D, NEW L, NEW R, NEW D2, NEW L2, NEW R2, Recent(q, D, L, R),
           \A d \in D2 : d \in D \/ d.by \in Known(q),
           \A row \in L2 : row \in L \/ row.by \in Known(q),
           \A row \in R2 : row \in R \/ row.by \in Known(q)
    PROVE  Recent(q, D2, L2, R2)
<1>1. \A k \in Kinds : Settled(q, k, D) => Settled(q, k, D2)
  BY DEF Settled
<1> QED
  BY <1>1 DEF Recent

LEMMA RecentMoves ==
    ASSUME Inv, AllRecent, NEW p \in Requests, NEW r, request' = [request EXCEPT ![p] = r],
           InFlight(p),
           \A d \in details' : d \in details \/ d.by = request[p].by,
           \A row \in lists' : row \in lists \/ row.by = request[p].by,
           \A row \in receipts' : row \in receipts \/ row.by = request[p].by,
           Recent(r, details', lists', receipts')
    PROVE  AllRecent'
<1>1. request'[p] = r /\ \A s \in Requests \ {p} : request'[s] = request[s]
  BY DEF Inv
<1>2. ASSUME NEW s \in Requests \ {p}
      PROVE  Recent(request[s], details', lists', receipts')
  <2>1. CASE InFlight(s)
    <3>1. request[p].by \in Known(request[s])
      BY <2>1 DEF Inv, Meetings, Known
    <3>2. PICK q, D, L, R, D2, L2, R2 :
              /\ q = request[s] /\ D = details /\ L = lists /\ R = receipts
              /\ D2 = details' /\ L2 = lists' /\ R2 = receipts'
      OBVIOUS
    <3>3. Recent(q, D, L, R)
      BY <3>2 DEF AllRecent
    <3>4. /\ \A d \in D2 : d \in D \/ d.by \in Known(q)
          /\ \A row \in L2 : row \in L \/ row.by \in Known(q)
          /\ \A row \in R2 : row \in R \/ row.by \in Known(q)
      BY <3>1, <3>2
    <3>5. Recent(q, D2, L2, R2)
      BY <3>3, <3>4, RecentStands
    <3> QED
      BY <3>2, <3>5
  <2>2. CASE ~ InFlight(s)
    BY <2>2 DEF InFlight, Recent, Forming
  <2> QED
    BY <2>1, <2>2
<1> QED
  BY <1>1, <1>2 DEF AllRecent

LEMMA RecentAlone ==
    ASSUME Inv, AllRecent, NEW p \in Requests, NEW r, request' = [request EXCEPT ![p] = r],
           InFlight(p), UNCHANGED <<form, expenses>>, Recent(r, details, lists, receipts)
    PROVE  AllRecent'
<1>1. details' = details /\ lists' = lists /\ receipts' = receipts
  BY DEF form, expenses
<1> QED
  BY <1>1, RecentMoves

LEMMA OwnRecent ==
    ASSUME Inv, AllRecent, NEW p \in Requests
    PROVE  /\ request[p] \in Update /\ Recent(request[p], details, lists, receipts)
           /\ Sound(request[p], Len(travellers), Len(forms), given.detail, arrivals)
BY UpdateFacts DEF AllRecent

LEMMA EndRecent ==
    ASSUME Inv, AllRecent, NEW p \in Requests, Answer(p) \/ Fail(p)
    PROVE  AllRecent'
<1>1. /\ request' = [request EXCEPT ![p] = Idle] /\ UNCHANGED <<form, expenses>>
      /\ InFlight(p)
  BY DEF Answer, Fail, Goes, At, InFlight
<1>2. Recent(Idle, details, lists, receipts)
  BY IdleIs DEF Recent, Forming
<1> QED
  BY <1>1, <1>2, RecentAlone

LEMMA FindListsRecent ==
    ASSUME Inv, AllRecent, NEW p \in Requests, FindLists(p)
    PROVE  AllRecent'
<1> DEFINE r == [request[p] EXCEPT !.pc = "receipts", !.stale = Ids(lists)]
<1>1. /\ request' = [request EXCEPT ![p] = r] /\ UNCHANGED <<form, expenses>>
      /\ InFlight(p) /\ r.pc = "receipts"
  BY OwnRecent DEF FindLists, Goes, At, InFlight, Update
<1> HIDE DEF r
<1>2. Recent(r, details, lists, receipts)
  BY <1>1 DEF Recent, Forming
<1> QED
  BY <1>1, <1>2, RecentAlone

LEMMA DeleteReceiptsRecent ==
    ASSUME Inv, AllRecent, NEW p \in Requests, DeleteReceipts(p)
    PROVE  AllRecent'
<1> DEFINE r == [request[p] EXCEPT !.pc = "purge", !.stale = {}]
<1>1. /\ request' = [request EXCEPT ![p] = r] /\ UNCHANGED <<form, lists>>
      /\ receipts' \subseteq receipts /\ InFlight(p) /\ r.pc = "purge"
  BY OwnRecent DEF DeleteReceipts, Goes, At, InFlight, Update
<1> HIDE DEF r
<1>2. Recent(r, details', lists', receipts')
  BY <1>1 DEF Recent, Forming
<1>3. details' = details
  BY <1>1 DEF form
<1> QED
  BY <1>1, <1>2, <1>3, RecentMoves

(* No row is left of the expenses. *)
LEMMA DeleteListsRecent ==
    ASSUME Inv, AllRecent, NEW p \in Requests, DeleteLists(p)
    PROVE  AllRecent'
<1> DEFINE q == request[p]
           r == IF q.left = <<>> THEN PastExpenses(q) ELSE [q EXCEPT !.pc = "insert"]
<1>1. /\ q.pc = "purge" /\ request' = [request EXCEPT ![p] = r]
      /\ UNCHANGED <<form, receipts>> /\ lists' = {} /\ receipts = {}
  BY DEF DeleteLists, DeleteListsUnchecked, At, Goes
<1>2. \/ r.pc = "insert"
      \/ r.pc = (IF q.content.form THEN "form" ELSE "done") /\ r.content = q.content
  BY OwnRecent, PastIs DEF Update, Same
<1> HIDE DEF r
<1>3. Recent(r, details', lists', receipts')
  BY <1>1, <1>2 DEF Recent, Forming
<1>4. details' = details
  BY <1>1 DEF form
<1> QED
  BY <1>1, <1>3, <1>4, RecentMoves DEF InFlight

(* What an insert of the expenses leaves to the next step. *)
LEMMA InsertedRecent ==
    ASSUME NEW q \in Update, NEW x \in Update, NEW D, NEW L, NEW R, NEW L2, NEW R2,
           Recent(q, D, L, R), q.pc = "insert", q.content.inserts # Nil,
           Same(q, x), x.pc = q.pc, x.left # <<>>,
           \A row \in L2 : row \in L \/ row.by = q.by,
           \A row \in R2 : row \in R \/ row.by = q.by
    PROVE  Recent(Inserted(x), D, L2, R2)
<1>1. PICK r : r = Inserted(x)
  OBVIOUS
<1>2. /\ Same(x, r)
      /\ r.pc = "insert" \/ r.pc = IF x.content.form THEN "form" ELSE "done"
  BY <1>1, InsertedIs
<1>3. Known(r) = Known(q) /\ r.content = q.content
  BY <1>2 DEF Known, Same
<1>4. \A row \in L \cup R : row.by \in Known(q)
  BY DEF Recent
<1>5. \A row \in L2 \cup R2 : row.by \in Known(r)
  BY <1>3, <1>4 DEF Known
<1>6. Recent(r, D, L2, R2)
  BY <1>2, <1>3, <1>5 DEF Recent, Forming, Same
<1> QED
  BY <1>1, <1>6

LEMMA CreateExpenseRecent ==
    ASSUME Inv, AllRecent, NEW p \in Requests, CreateExpense(p)
    PROVE  AllRecent'
<1> DEFINE q == request[p]
<1>1. PICK x : x = [q EXCEPT !.target = given'.list]
  OBVIOUS
<1>2. /\ q.pc = "insert" /\ request' = [request EXCEPT ![p] = Inserted(x)]
      /\ UNCHANGED <<form, receipts>>
      /\ lists' = lists \cup {[id |-> given'.list, by |-> q.by]}
      /\ given'.list \in Nat
  BY <1>1, ExpenseTypes DEF CreateExpense, At, Goes
<1>3. q.left # <<>> /\ q.content.inserts # Nil
  BY <1>2, OwnRecent DEF Sound, Early
<1>4. x \in Update /\ Same(q, x) /\ x.pc = q.pc /\ x.left = q.left
  <2>1. PICK n \in Nat : x = [q EXCEPT !.target = n]
    BY <1>1, <1>2
  <2>2. q \in Update
    BY OwnRecent
  <2> QED
    BY <2>1, <2>2 DEF Update, Same
<1>5. details' = details /\ \A row \in lists' : row \in lists \/ row.by = q.by
  BY <1>2 DEF form
<1>6. PICK D, L, R, L2 : /\ D = details /\ L = lists /\ R = receipts /\ L2 = lists'
  OBVIOUS
<1>7. Recent(Inserted(x), D, L2, R)
  BY <1>2, <1>3, <1>4, <1>5, <1>6, OwnRecent, InsertedRecent
<1> QED
  BY <1>2, <1>5, <1>6, <1>7, RecentMoves DEF InFlight

LEMMA CreateReceiptRecent ==
    ASSUME Inv, AllRecent, NEW p \in Requests, CreateReceipt(p)
    PROVE  AllRecent'
<1> DEFINE q == request[p]
<1>1. /\ q.pc = "insert" /\ request' = [request EXCEPT ![p] = Inserted(q)]
      /\ UNCHANGED <<form, lists>>
      /\ \A row \in receipts' : row \in receipts \/ row.by = q.by
  BY DEF CreateReceipt, At, Goes
<1>2. q.left # <<>> /\ q.content.inserts # Nil /\ Same(q, q)
  BY <1>1, OwnRecent DEF Sound, Early, Same
<1>3. details' = details
  BY <1>1 DEF form
<1>4. PICK D, L, R, R2 : /\ D = details /\ L = lists /\ R = receipts /\ R2 = receipts'
  OBVIOUS
<1>5. Recent(Inserted(q), D, L, R2)
  BY <1>1, <1>2, <1>4, OwnRecent, InsertedRecent
<1> QED
  BY <1>1, <1>3, <1>4, <1>5, RecentMoves DEF InFlight

(* An update on its way to a form, that has no list before it. *)
LEMMA TowardsRecent ==
    ASSUME NEW q, NEW r, NEW D, NEW L, NEW R, Recent(q, D, L, R),
           q.pc \in Forming, Same(q, r),
           \/ r.pc \in {"traveller", "newTraveller", "newForm"}
           \/ r.pc = "current" /\ r.kind = 1 /\ ~ r.fresh
    PROVE  Recent(r, D, L, R)
<1>1. Known(r) = Known(q) /\ r.content = q.content
  BY DEF Known, Same
<1>2. \A k \in Kinds : ~ k < 1
  BY DEF Kinds
<1> QED
  BY <1>1, <1>2 DEF Recent, Forming

LEMMA FindFormRecent ==
    ASSUME Inv, AllRecent, NEW p \in Requests, FindForm(p)
    PROVE  AllRecent'
<1> PICK q \in Update : q = request[p]
  BY OwnRecent
<1>1. q.pc = "form" /\ UNCHANGED <<form, expenses>>
  BY DEF FindForm, At
<1>2. ~ q.fresh
  BY <1>1, OwnRecent DEF Sound
<1>3. PICK r : /\ request' = [request EXCEPT ![p] = r] /\ Same(q, r)
               /\ \/ r.pc = "traveller"
                  \/ r.pc = "current" /\ r.kind = 1 /\ ~ r.fresh
  <2>1. CASE q.body.traveller = Nil
    <3> DEFINE r == [q EXCEPT !.pc = "traveller", !.fresh = TRUE]
    <3>1. request' = [request EXCEPT ![p] = r] /\ Same(q, r) /\ r.pc = "traveller"
      BY <2>1 DEF FindForm, Goes, Update, Same
    <3> QED
      BY <3>1
  <2>2. CASE q.body.traveller # Nil
    <3>1. PICK f \in FormsOf(q.body.traveller) :
              request' = [request EXCEPT ![p] = Enters([q EXCEPT !.target = f], 1)]
      BY <2>2 DEF FindForm, Goes
    <3>2. f \in Nat
      BY UpdateFacts DEF FormsOf
    <3>3. PICK x : x = [q EXCEPT !.target = f]
      OBVIOUS
    <3>4. x \in Update /\ Same(q, x) /\ x.fresh = q.fresh
      BY <3>2, <3>3 DEF Update, Same
    <3> DEFINE r == Enters(x, 1)
    <3>5. /\ Same(x, r) /\ r.kind = 1 /\ r.fresh = x.fresh
          /\ r.pc = IF x.fresh THEN "sync" ELSE "current"
      BY <3>4, KindsAre, EntersIs
    <3>6. request' = [request EXCEPT ![p] = r]
      BY <3>1, <3>3
    <3> HIDE DEF r
    <3> QED
      BY <1>2, <3>4, <3>5, <3>6 DEF Same
  <2> QED
    BY <2>1, <2>2
<1>4. Recent(r, details, lists, receipts)
  BY <1>1, <1>3, OwnRecent, TowardsRecent DEF Forming
<1> QED
  BY <1>1, <1>3, <1>4, RecentAlone DEF InFlight

LEMMA FindTravellerRecent ==
    ASSUME Inv, AllRecent, NEW p \in Requests, FindTraveller(p)
    PROVE  AllRecent'
<1> PICK q \in Update : q = request[p]
  BY OwnRecent
<1>1. q.pc = "traveller" /\ UNCHANGED <<form, expenses>>
  BY DEF FindTraveller, At
<1>2. PICK r : /\ request' = [request EXCEPT ![p] = r]
               /\ Same(q, r) /\ r.pc \in {"newTraveller", "newForm"}
  <2>1. CASE Named(q.body.name) = {}
    <3> DEFINE r == [q EXCEPT !.pc = "newTraveller"]
    <3>1. request' = [request EXCEPT ![p] = r] /\ Same(q, r) /\ r.pc = "newTraveller"
      BY <2>1 DEF FindTraveller, Goes, Update, Same
    <3> QED
      BY <3>1
  <2>2. CASE Named(q.body.name) # {}
    <3>1. PICK t \in Named(q.body.name) :
              request' = [request EXCEPT ![p] = [q EXCEPT !.pc = "newForm", !.target = t]]
      BY <2>2 DEF FindTraveller, Goes
    <3> DEFINE r == [q EXCEPT !.pc = "newForm", !.target = t]
    <3>2. request' = [request EXCEPT ![p] = r] /\ Same(q, r) /\ r.pc = "newForm"
      BY <3>1 DEF Update, Same
    <3> QED
      BY <3>2
  <2> QED
    BY <2>1, <2>2
<1>3. Recent(r, details, lists, receipts)
  BY <1>1, <1>2, OwnRecent, TowardsRecent DEF Forming
<1> QED
  BY <1>1, <1>2, <1>3, RecentAlone DEF InFlight

LEMMA CreateTravellerRecent ==
    ASSUME Inv, AllRecent, NEW p \in Requests, CreateTraveller(p)
    PROVE  AllRecent'
<1> PICK q \in Update : q = request[p]
  BY OwnRecent
<1> DEFINE r == [q EXCEPT !.pc = "newForm", !.target = Len(travellers')]
<1>1. /\ q.pc = "newTraveller" /\ request' = [request EXCEPT ![p] = r]
      /\ UNCHANGED <<details, expenses>> /\ Same(q, r) /\ r.pc = "newForm"
  BY DEF CreateTraveller, At, Goes, Update, Same
<1> HIDE DEF r
<1>2. lists' = lists /\ receipts' = receipts /\ details' = details
  BY <1>1 DEF expenses
<1>3. Recent(r, details, lists, receipts)
  BY <1>1, OwnRecent, TowardsRecent DEF Forming
<1> QED
  BY <1>1, <1>2, <1>3, RecentMoves DEF InFlight

(* There are no rows yet of the new form. *)
LEMMA CreateFormRecent ==
    ASSUME Inv, AllRecent, NEW p \in Requests, CreateForm(p)
    PROVE  AllRecent'
<1> PICK q \in Update : q = request[p]
  BY OwnRecent
<1>1. PICK x : x = [q EXCEPT !.target = Len(forms')]
  OBVIOUS
<1>2. PICK r : r = Enters(x, 1)
  OBVIOUS
<1>3. /\ q.pc = "newForm" /\ request' = [request EXCEPT ![p] = r]
      /\ UNCHANGED <<details, expenses>> /\ forms' = Append(forms, q.target)
  BY <1>1, <1>2 DEF CreateForm, At, Goes
<1>4. lists' = lists /\ receipts' = receipts /\ details' = details
  BY <1>3 DEF expenses
<1>5. Len(forms') = Len(forms) + 1 /\ Len(forms) \in Nat /\ DOMAIN forms = 1..Len(forms)
  <2>1. q.target \in DOMAIN travellers
    BY <1>3, UpdateFacts DEF Sound
  <2> QED
    BY <1>3, <2>1, FormTypes, AppendProperties, LenProperties
<1>6. /\ x \in Update /\ Same(q, x) /\ x.target = Len(forms') /\ x.stale = q.stale
  BY <1>1, <1>5 DEF Update, Same
<1>7. /\ r.pc \in {"sync", "current"} /\ Same(x, r) /\ r.target = Len(forms')
  BY <1>2, <1>6, KindsAre, EntersIs
<1>8. \A d \in details : d.form # r.target
  BY <1>5, <1>7, FormTypes
<1>9. Known(r) = Known(q) /\ r.content = q.content
  BY <1>6, <1>7 DEF Known, Same
<1>10. Recent(r, details, lists, receipts)
  BY <1>3, <1>7, <1>8, <1>9, OwnRecent DEF Recent, Settled, Forming
<1> QED
  BY <1>3, <1>4, <1>10, RecentMoves DEF InFlight

LEMMA FindCurrentRecent ==
    ASSUME Inv, AllRecent, NEW p \in Requests, FindCurrent(p)
    PROVE  AllRecent'
<1> PICK q \in Update : q = request[p]
  BY OwnRecent
<1> PICK s : s = Ids(Rows(q.target, q.kind)) \ q.keep
  OBVIOUS
<1>1. PICK r : r = [q EXCEPT !.pc = "sync", !.stale = s]
  OBVIOUS
<1>2. /\ q.pc = "current" /\ request' = [request EXCEPT ![p] = r]
      /\ UNCHANGED <<form, expenses>>
  BY <1>1 DEF FindCurrent, At, Goes
<1>3. /\ r.pc = "sync" /\ Same(q, r) /\ r.target = q.target /\ r.kind = q.kind
      /\ r.fresh = q.fresh /\ r.keep = q.keep /\ r.stale = s
  BY <1>1 DEF Update, Same
<1>4. Known(r) = Known(q) /\ r.content = q.content
  BY <1>3 DEF Known, Same
<1>5. \A d \in details : d.kind = r.kind /\ d.form = r.target => d.id \in r.stale \cup r.keep
  BY <1>3 DEF Ids, Rows, Of
<1>6. Recent(r, details, lists, receipts)
  BY <1>2, <1>3, <1>4, <1>5, OwnRecent DEF Recent, Settled, Forming
<1> QED
  BY <1>2, <1>6, RecentAlone DEF InFlight

LEMMA DeleteDetailRecent ==
    ASSUME Inv, AllRecent, NEW p \in Requests, DeleteDetail(p)
    PROVE  AllRecent'
<1> PICK q \in Update : q = request[p]
  BY OwnRecent
<1>1. PICK id \in q.stale :
          /\ request' = [request EXCEPT ![p] = [q EXCEPT !.stale = q.stale \ {id}]]
          /\ details' = {d \in details : ~ (d.id = id /\ d.kind = q.kind)}
  BY DEF DeleteDetail, Goes
<1>2. q.pc = "sync" /\ lists' = lists /\ receipts' = receipts
  BY DEF DeleteDetail, At, expenses
<1>3. PICK r : r = [q EXCEPT !.stale = q.stale \ {id}]
  OBVIOUS
<1>4. /\ r.pc = "sync" /\ Same(q, r) /\ r.target = q.target /\ r.kind = q.kind
      /\ r.fresh = q.fresh /\ r.keep = q.keep /\ r.stale = q.stale \ {id}
  BY <1>2, <1>3 DEF Update, Same
<1>5. Known(r) = Known(q) /\ r.content = q.content
  BY <1>4 DEF Known, Same
<1>6. Recent(r, details', lists, receipts)
  BY <1>1, <1>2, <1>4, <1>5, OwnRecent DEF Recent, Settled, Forming
<1> QED
  BY <1>1, <1>2, <1>3, <1>6, RecentMoves DEF InFlight

LEMMA UpdateDetailRecent ==
    ASSUME Inv, AllRecent, NEW p \in Requests, UpdateDetail(p)
    PROVE  AllRecent'
<1> DEFINE q == request[p]
<1>1. PICK id \in q.keep :
          /\ request' = [request EXCEPT ![p] = [q EXCEPT !.keep = q.keep \ {id}]]
          /\ details' = {IF d.id = id /\ d.kind = q.kind THEN [d EXCEPT !.by = q.by] ELSE d :
                            d \in details}
  BY DEF UpdateDetail, Goes
<1>2. q.pc = "sync" /\ lists' = lists /\ receipts' = receipts
  BY DEF UpdateDetail, At, expenses
<1>3. PICK r : r = [q EXCEPT !.keep = q.keep \ {id}]
  OBVIOUS
<1>4. /\ r.pc = "sync" /\ Same(q, r) /\ r.target = q.target /\ r.kind = q.kind
      /\ r.fresh = q.fresh /\ r.keep = q.keep \ {id} /\ r.stale = q.stale
  BY <1>2, <1>3 DEF Update, Same
<1>5. Known(r) = Known(q) /\ r.content = q.content
  BY <1>4 DEF Known, Same
<1>6. ASSUME NEW d \in details'
      PROVE  \/ d.by = q.by
             \/ d \in details /\ ~ (d.id = id /\ d.kind = q.kind)
  <2>1. PICK e \in details :
            d = IF e.id = id /\ e.kind = q.kind THEN [e EXCEPT !.by = q.by] ELSE e
    BY <1>1
  <2> QED
    BY <2>1, FormTypes
<1>7. Recent(r, details', lists, receipts)
  BY <1>2, <1>4, <1>5, <1>6, OwnRecent DEF Recent, Settled, Forming, Known
<1> QED
  BY <1>1, <1>2, <1>3, <1>6, <1>7, RecentMoves DEF InFlight

LEMMA CreateDetailRecent ==
    ASSUME Inv, AllRecent, NEW p \in Requests, CreateDetail(p)
    PROVE  AllRecent'
<1> PICK q \in Update : q = request[p]
  BY OwnRecent
<1>1. PICK r : r = [q EXCEPT !.new = q.new - 1]
  OBVIOUS
<1>2. /\ q.pc = "sync" /\ request' = [request EXCEPT ![p] = r]
      /\ \A d \in details' : d \in details \/ d.by = q.by
      /\ lists' = lists /\ receipts' = receipts
  BY <1>1 DEF CreateDetail, At, Goes, expenses
<1>3. /\ r.pc = "sync" /\ Same(q, r) /\ r.target = q.target /\ r.kind = q.kind
      /\ r.fresh = q.fresh /\ r.keep = q.keep /\ r.stale = q.stale
  BY <1>1, <1>2 DEF Update, Same
<1>4. Known(r) = Known(q) /\ r.content = q.content
  BY <1>3 DEF Known, Same
<1>5. Recent(r, details', lists, receipts)
  BY <1>2, <1>3, <1>4, OwnRecent DEF Recent, Settled, Forming, Known
<1> QED
  BY <1>2, <1>5, RecentMoves DEF InFlight

(* With the last list the whole form has been dealt with. *)
LEMMA NextListRecent ==
    ASSUME Inv, AllRecent, NEW p \in Requests, NextList(p)
    PROVE  AllRecent'
<1> PICK q \in Update : q = request[p]
  BY OwnRecent
<1>1. /\ q.pc = "sync" /\ q.stale = {} /\ q.keep = {} /\ UNCHANGED <<form, expenses>>
      /\ q.kind \in Kinds
  BY DEF NextList, At, Update
<1>2. Recent(q, details, lists, receipts)
  BY OwnRecent
<1>3. \A k \in Kinds : k < q.kind \/ k = q.kind => Settled(q, k, details)
  BY <1>1, <1>2 DEF Recent, Settled
<1>4. CASE q.kind + 1 \in Kinds
  <2>1. PICK r : r = Enters(q, q.kind + 1)
    OBVIOUS
  <2>2. request' = [request EXCEPT ![p] = r]
    BY <1>4, <2>1 DEF NextList, Goes
  <2>3. /\ Same(q, r) /\ r.pc = (IF q.fresh THEN "sync" ELSE "current") /\ r.target = q.target
        /\ r.kind = q.kind + 1 /\ r.fresh = q.fresh
    BY <1>4, <2>1, EntersIs
  <2>4. Known(r) = Known(q) /\ r.content = q.content
    BY <2>3 DEF Known, Same
  <2>5. \A k \in Kinds : k < r.kind => k < q.kind \/ k = q.kind
    BY <1>1, <2>3 DEF Kinds
  <2>6. \A k \in Kinds : k < r.kind \/ r.fresh => Settled(r, k, details)
    BY <1>1, <1>2, <1>3, <2>3, <2>4, <2>5 DEF Recent, Settled
  <2>7. Recent(r, details, lists, receipts)
    BY <1>1, <1>2, <1>4, <2>3, <2>4, <2>6 DEF Recent, Settled, Forming
  <2> QED
    BY <1>1, <2>2, <2>7, RecentAlone DEF InFlight
<1>5. CASE q.kind + 1 \notin Kinds
  <2>1. PICK r : r = [q EXCEPT !.pc = "done"]
    OBVIOUS
  <2>2. request' = [request EXCEPT ![p] = r]
    BY <1>5, <2>1 DEF NextList, Goes
  <2>3. Same(q, r) /\ r.pc = "done" /\ r.target = q.target
    BY <2>1 DEF Update, Same
  <2>4. Known(r) = Known(q) /\ r.content = q.content
    BY <2>3 DEF Known, Same
  <2>5. \A k \in Kinds : k < q.kind \/ k = q.kind
    BY <1>1, <1>5, ReportAssumption DEF Kinds
  <2>6. Recent(r, details, lists, receipts)
    BY <1>1, <1>2, <1>3, <2>3, <2>4, <2>5 DEF Recent, Settled, Forming
  <2> QED
    BY <1>1, <2>2, <2>6, RecentAlone DEF InFlight
<1> QED
  BY <1>4, <1>5

LEMMA ArriveRecent ==
    ASSUME Inv, AllRecent, NEW p \in Requests, Arrive(p)
    PROVE  AllRecent'
<1>1. details' = details /\ lists' = lists /\ receipts' = receipts
  BY DEF Arrive, form, expenses
<1>2. PICK c \in Contents, b \in Body, q \in Update :
               /\ c.form => b \in Bodies
               /\ q = [Idle EXCEPT !.by = arrivals + 1, !.content = c, !.body = b,
                                   !.met = Others(p)]
               /\ q.pc = "idle" /\ q.by = arrivals + 1 /\ q.content = c /\ q.body = b
               /\ q.met = Others(p) /\ q.left = <<>> /\ q.fresh = FALSE /\ q.kind = 1
               /\ q.stale = {} /\ q.keep = {} /\ q.new = 0
               /\ \A k \in Kinds : b.keep[k] \subseteq 1..given.detail[k]
               /\ request'[p] = IF c.inserts = Nil THEN PastExpenses(q)
                                ELSE [q EXCEPT !.pc = "lists", !.left = c.inserts]
               /\ \A r \in Requests \ {p} :
                      request'[r] = IF InFlight(r) THEN Met(request[r], arrivals + 1)
                                    ELSE request[r]
               /\ request' = [r \in Requests |-> request'[r]]
  BY ArriveIs, Zenon
<1>3. Recent(request'[p], details, lists, receipts)
  <2>1. CASE c.inserts = Nil
    BY <1>2, <2>1, PastIs DEF Same, Recent, Forming
  <2>2. CASE c.inserts # Nil
    <3>1. request'[p].pc = "lists"
      BY <1>2, <2>2 DEF Update
    <3> QED
      BY <3>1 DEF Recent, Forming
  <2> QED
    BY <2>1, <2>2
<1>4. ASSUME NEW r \in Requests \ {p}
      PROVE  Recent(request'[r], details, lists, receipts)
  <2>1. CASE InFlight(r)
    <3>1. PICK o, m : o = request[r] /\ m = Met(o, arrivals + 1)
      OBVIOUS
    <3>2. /\ m.by = o.by /\ m.content = o.content /\ m.pc = o.pc /\ m.target = o.target
          /\ m.fresh = o.fresh /\ m.kind = o.kind /\ m.stale = o.stale /\ m.keep = o.keep
          /\ o.met \subseteq m.met
      BY <3>1, OwnRecent DEF Met, Update
    <3>3. Known(o) \subseteq Known(m)
      BY <3>2 DEF Known
    <3>4. \A k \in Kinds : Settled(o, k, details) => Settled(m, k, details)
      BY <3>2, <3>3 DEF Settled
    <3>5. Recent(o, details, lists, receipts)
      BY <3>1, OwnRecent
    <3>6. Recent(m, details, lists, receipts)
      BY <3>2, <3>3, <3>4, <3>5 DEF Recent
    <3> QED
      BY <1>2, <2>1, <3>1, <3>6
  <2>2. CASE ~ InFlight(r)
    BY <1>2, <2>2, OwnRecent
  <2> QED
    BY <2>1, <2>2
<1> QED
  BY <1>1, <1>3, <1>4 DEF AllRecent

LEMMA RecentInvariance == Spec => []AllRecent
<1>1. Init => AllRecent
  BY IdleIs DEF Init, AllRecent, Recent, Forming
<1>2. Inv /\ AllRecent /\ [Next]_vars => AllRecent'
  <2>1. ASSUME Inv, AllRecent, UNCHANGED vars PROVE AllRecent'
    <3>1. request' = request /\ details' = details /\ lists' = lists /\ receipts' = receipts
      BY <2>1 DEF vars, form, expenses
    <3> QED
      BY <2>1, <3>1 DEF AllRecent
  <2> QED
    BY <2>1, ArriveRecent, EndRecent, FindListsRecent, DeleteReceiptsRecent,
       DeleteListsRecent, CreateExpenseRecent, CreateReceiptRecent, FindFormRecent,
       FindTravellerRecent, CreateTravellerRecent, CreateFormRecent, FindCurrentRecent,
       DeleteDetailRecent, UpdateDetailRecent, CreateDetailRecent, NextListRecent DEF Next
<1> QED
  BY <1>1, <1>2, Invariance, PTL DEF Spec

(* An update that is through leaves no row of an earlier one in what its body
   held, however many updates run together, in any order of their statements. *)
THEOREM OldRowsAreGone == Spec => []OldRowsGo
<1>1. ASSUME Inv, AllRecent PROVE OldRowsGo
  BY <1>1, OwnRecent DEF OldRowsGo, Recent, Settled, Known, Rows, Of
<1> QED
  BY Invariance, RecentInvariance, <1>1, PTL

-----------------------------------------------------------------------------
(* What an update has stored so far, if it has met no other. *)

Many(ins, what, n) == Cardinality({i \in 1..n : ins[i] = what})

(* The rows L and R are those of the inserts that are not left. *)
Inserting(ins, left, L, R) ==
    /\ Len(left) <= Len(ins)
    /\ \A i \in 1..Len(left) : left[i] = ins[i + (Len(ins) - Len(left))]
    /\ IsFiniteSet(L) /\ Cardinality(L) = Many(ins, "expense", Len(ins) - Len(left))
    /\ IsFiniteSet(R) /\ Cardinality(R) = Many(ins, "receipt", Len(ins) - Len(left))

Paid(q, L, R) ==
    q.pc \in {"insert", "done"} \cup Forming /\ q.content.inserts # Nil =>
        Inserting(q.content.inserts, IF q.pc = "insert" THEN q.left ELSE <<>>, L, R)

Untouched(q, k, D) == \A d \in D : d.kind = k => d.by # q.by

FreshRows(q, k, D) ==
    {d \in D : /\ d.kind = k /\ d.form = q.target
               /\ d.by = q.by /\ d.id \notin q.body.keep[k]}

(* The rows K of the list k are rewritten, and m are new. *)
Saved(q, k, K, m, D) ==
    /\ \A d \in D : d.kind = k /\ d.id \in K => d.by = q.by
    /\ IsFiniteSet(FreshRows(q, k, D)) /\ Cardinality(FreshRows(q, k, D)) = m
    /\ k \in Strict => \A id \in K : \E d \in D : d.kind = k /\ d.id = id

Saving(q, D) ==
    LET keep == q.body.keep[q.kind]
        new == q.body.new[q.kind]
    IN  /\ q.keep \subseteq keep /\ q.stale \cap keep = {}
        /\ q.stale # {} => q.keep = keep /\ q.new = new /\ Untouched(q, q.kind, D)
        /\ Saved(q, q.kind, keep \ q.keep, new - q.new, D)

(* An update that has not come to the details. *)
Before == Early \cup {"form", "traveller", "newTraveller", "newForm"}

Stored(q, D, L, R) ==
    q.pc # "idle" /\ q.met = {} =>
        /\ Paid(q, L, R)
        /\ q.pc \in Before => \A k \in Kinds : Untouched(q, k, D)
        /\ q.pc \in {"current", "sync"} => \A k \in Kinds :
               /\ k < q.kind => Saved(q, k, q.body.keep[k], q.body.new[k], D)
               /\ k > q.kind => Untouched(q, k, D)
        /\ q.pc = "current" => Untouched(q, q.kind, D)
        /\ q.pc = "sync" => Saving(q, D)
        /\ q.pc = "done" /\ q.content.form => \A k \in Kinds :
               Saved(q, k, q.body.keep[k], q.body.new[k], D)

AllStored == \A p \in Requests : Stored(request[p], details, lists, receipts)

(* It is the only one then. *)
LEMMA StoredMoves ==
    ASSUME Inv, AllStored, NEW p \in Requests, NEW r, request' = [request EXCEPT ![p] = r],
           InFlight(p), Stored(r, details', lists', receipts')
    PROVE  AllStored'
<1>1. request'[p] = r /\ \A s \in Requests \ {p} : request'[s] = request[s]
  BY DEF Inv
<1>2. ASSUME NEW s \in Requests \ {p}, request[s].pc # "idle"
      PROVE  request[s].met # {}
  BY <1>2 DEF Inv, Meetings, InFlight
<1> QED
  BY <1>1, <1>2 DEF AllStored, Stored

LEMMA OwnStored ==
    ASSUME Inv, AllStored, NEW p \in Requests
    PROVE  /\ request[p] \in Update /\ Stored(request[p], details, lists, receipts)
           /\ Sound(request[p], Len(travellers), Len(forms), given.detail, arrivals)
BY UpdateFacts DEF AllStored

LEMMA SavedStays ==
    ASSUME NEW q, NEW r, NEW k, NEW D, NEW D2,
           r.by = q.by, r.target = q.target, r.body = q.body,
           \A d \in D : d.kind = k => d \in D2,
           \A d \in D2 : d.kind = k => d \in D
    PROVE  /\ Untouched(q, k, D) => Untouched(r, k, D2)
           /\ \A K, m : Saved(q, k, K, m, D) => Saved(r, k, K, m, D2)
<1>1. FreshRows(q, k, D) = FreshRows(r, k, D2)
  BY DEF FreshRows
<1> QED
  BY <1>1 DEF Untouched, Saved

LEMMA UntouchedSaved ==
    ASSUME NEW q, NEW k, NEW D, Untouched(q, k, D)
    PROVE  Saved(q, k, {}, 0, D)
<1>1. FreshRows(q, k, D) = {}
  BY DEF FreshRows, Untouched
<1> QED
  BY <1>1, FS_EmptySet DEF Saved

LEMMA PaidStays ==
    ASSUME NEW q, NEW r, NEW L, NEW R, q.pc \in Forming, Paid(q, L, R),
           r.pc \in Forming \cup {"done"}, r.content = q.content
    PROVE  Paid(r, L, R)
BY DEF Paid, Forming

LEMMA EarlyStored ==
    ASSUME NEW q, NEW r, NEW D, NEW L, NEW R, NEW L2, NEW R2, Stored(q, D, L, R),
           q.pc \in Before, Same(q, r), r.pc \in Before \/ (r.pc = "done" /\ ~ q.content.form),
           q.met = {} => Paid(r, L2, R2)
    PROVE  Stored(r, D, L2, R2)
<1>1. q.met = {} => \A k \in Kinds : Untouched(r, k, D)
  BY DEF Stored, Same, Untouched, Before, Early
<1> QED
  BY <1>1 DEF Stored, Same, Before, Early

(* A list is entered that is untouched. *)
LEMMA EnteredStored ==
    ASSUME NEW q \in Update, NEW D, NEW L, NEW R, q.pc \in {"current", "sync"},
           q.stale = {}, q.keep = q.body.keep[q.kind], q.new = q.body.new[q.kind],
           q.met = {} => /\ Paid(q, L, R)
                         /\ \A k \in Kinds :
                               /\ k < q.kind => Saved(q, k, q.body.keep[k], q.body.new[k], D)
                               /\ k >= q.kind => Untouched(q, k, D)
    PROVE  Stored(q, D, L, R)
<1>1. q.kind \in Kinds /\ q.kind \in Nat /\ q.new \in Nat
  BY KindsAre DEF Update
<1>2. ASSUME q.met = {} PROVE Untouched(q, q.kind, D) /\ Saving(q, D)
  <2>1. Untouched(q, q.kind, D)
    BY <1>1, <1>2
  <2>2. Saved(q, q.kind, {}, 0, D)
    BY <2>1, UntouchedSaved
  <2>3. q.body.keep[q.kind] \ q.keep = {} /\ q.body.new[q.kind] - q.new = 0
    BY <1>1
  <2> QED
    BY <2>1, <2>2, <2>3 DEF Saving
<1>3. \A k \in Kinds : k > q.kind => k >= q.kind
  <2> TAKE k \in Kinds
  <2>1. k \in Nat /\ q.kind \in Nat
    BY <1>1, KindsAre
  <2> QED
    BY <2>1
<1> QED
  BY <1>2, <1>3 DEF Stored, Before, Early

LEMMA ManyStep ==
    ASSUME NEW ins, NEW what, NEW n \in Nat
    PROVE  /\ Many(ins, what, 0) = 0
           /\ Many(ins, what, n) \in Nat
           /\ ins[n + 1] = what => Many(ins, what, n + 1) = Many(ins, what, n) + 1
           /\ ins[n + 1] # what => Many(ins, what, n + 1) = Many(ins, what, n)
<1> DEFINE S(m) == {i \in 1..m : ins[i] = what}
<1>1. S(0) = {}
  OBVIOUS
<1>2. IsFiniteSet(1..n) /\ S(n) \subseteq 1..n
  BY FS_Interval
<1>3. IsFiniteSet(S(n))
  BY <1>2, FS_Subset
<1>4. n + 1 \notin S(n)
  OBVIOUS
<1>5. ins[n + 1] = what => S(n + 1) = S(n) \cup {n + 1}
  OBVIOUS
<1>6. ins[n + 1] # what => S(n + 1) = S(n)
  OBVIOUS
<1>7. Cardinality(S(n) \cup {n + 1}) = Cardinality(S(n)) + 1
  BY <1>3, <1>4, FS_AddElement
<1>8. Cardinality(S(n)) \in Nat
  BY <1>3, FS_CardinalityType
<1>9. /\ Many(ins, what, 0) = Cardinality(S(0)) /\ Many(ins, what, n) = Cardinality(S(n))
      /\ Many(ins, what, n + 1) = Cardinality(S(n + 1))
  BY DEF Many
<1> HIDE DEF S
<1> QED
  BY <1>1, <1>5, <1>6, <1>7, <1>8, <1>9, FS_EmptySet

LEMMA InsertsBegin ==
    ASSUME NEW ins \in Seq({"expense", "receipt"})
    PROVE  Inserting(ins, ins, {}, {})
<1>1. Len(ins) \in Nat
  BY LenProperties
<1>2. Len(ins) - Len(ins) = 0 /\ \A i \in 1..Len(ins) : i + 0 = i
  BY <1>1
<1>3. Many(ins, "expense", 0) = 0 /\ Many(ins, "receipt", 0) = 0
  BY ManyStep
<1> QED
  BY <1>1, <1>2, <1>3, FS_EmptySet DEF Inserting

LEMMA InsertsOn ==
    ASSUME NEW ins \in Seq({"expense", "receipt"}), NEW left \in Seq({"expense", "receipt"}),
           left # <<>>, NEW L, NEW R, NEW L2, NEW R2, Inserting(ins, left, L, R), NEW row,
           \/ Head(left) = "expense" /\ L2 = L \cup {row} /\ row \notin L /\ R2 = R
           \/ Head(left) = "receipt" /\ R2 = R \cup {row} /\ row \notin R /\ L2 = L
    PROVE  Inserting(ins, Tail(left), L2, R2)
<1>1. Len(ins) \in Nat /\ Len(left) \in Nat /\ Len(left) # 0
  BY LenProperties, EmptySeq
<1>2. /\ Len(Tail(left)) = Len(left) - 1 /\ Head(left) = left[1]
      /\ \A i \in 1..Len(Tail(left)) : Tail(left)[i] = left[i + 1]
  BY <1>1, HeadTailProperties, LenProperties
<1>0. Len(left) <= Len(ins)
  BY DEF Inserting
<1> PICK n \in Nat : n = Len(ins) - Len(left)
  BY <1>0, <1>1
<1>3. Len(ins) - Len(Tail(left)) = n + 1 /\ Len(Tail(left)) <= Len(ins)
  BY <1>1, <1>2
<1>4. Head(left) = ins[n + 1]
  <2>1. left[1] = ins[1 + n]
    BY <1>1 DEF Inserting
  <2> QED
    BY <1>2, <2>1
<1>5. ASSUME NEW i \in 1..Len(Tail(left))
      PROVE  Tail(left)[i] = ins[i + (Len(ins) - Len(Tail(left)))]
  <2>1. i + 1 \in 1..Len(left) /\ i + (n + 1) = (i + 1) + n
    BY <1>1, <1>2
  <2>2. left[i + 1] = ins[(i + 1) + n]
    BY <2>1 DEF Inserting
  <2> QED
    BY <1>2, <1>3, <2>1, <2>2
<1>6. /\ IsFiniteSet(L) /\ Cardinality(L) = Many(ins, "expense", n)
      /\ IsFiniteSet(R) /\ Cardinality(R) = Many(ins, "receipt", n)
  BY DEF Inserting
<1>7. /\ IsFiniteSet(L2) /\ Cardinality(L2) = Many(ins, "expense", n + 1)
      /\ IsFiniteSet(R2) /\ Cardinality(R2) = Many(ins, "receipt", n + 1)
  <2>1. CASE Head(left) = "expense"
    <3>1. /\ IsFiniteSet(L \cup {row}) /\ Cardinality(L \cup {row}) = Cardinality(L) + 1
          /\ L2 = L \cup {row} /\ R2 = R
      BY <1>6, <2>1, FS_AddElement
    <3>2. /\ Many(ins, "expense", n + 1) = Many(ins, "expense", n) + 1
          /\ Many(ins, "receipt", n + 1) = Many(ins, "receipt", n)
      BY <1>4, <2>1, ManyStep
    <3> QED
      BY <1>6, <3>1, <3>2
  <2>2. CASE Head(left) = "receipt"
    <3>1. /\ IsFiniteSet(R \cup {row}) /\ Cardinality(R \cup {row}) = Cardinality(R) + 1
          /\ R2 = R \cup {row} /\ L2 = L
      BY <1>6, <2>2, FS_AddElement
    <3>2. /\ Many(ins, "receipt", n + 1) = Many(ins, "receipt", n) + 1
          /\ Many(ins, "expense", n + 1) = Many(ins, "expense", n)
      BY <1>4, <2>2, ManyStep
    <3> QED
      BY <1>6, <3>1, <3>2
  <2> QED
    BY <2>1, <2>2
<1> QED
  BY <1>3, <1>5, <1>7 DEF Inserting

LEMMA EndStored ==
    ASSUME Inv, AllStored, NEW p \in Requests, Answer(p) \/ Fail(p)
    PROVE  AllStored'
<1>1. request' = [request EXCEPT ![p] = Idle] /\ InFlight(p)
  BY DEF Answer, Fail, Goes, At, InFlight
<1>2. Stored(Idle, details', lists', receipts')
  BY IdleIs DEF Stored
<1> QED
  BY <1>1, <1>2, StoredMoves

LEMMA FindListsStored ==
    ASSUME Inv, AllStored, NEW p \in Requests, FindLists(p)
    PROVE  AllStored'
<1> DEFINE r == [request[p] EXCEPT !.pc = "receipts", !.stale = Ids(lists)]
<1>1. /\ request[p].pc = "lists" /\ request' = [request EXCEPT ![p] = r]
      /\ r.pc = "receipts" /\ Same(request[p], r)
      /\ details' = details /\ lists' = lists /\ receipts' = receipts
  BY OwnStored DEF FindLists, Goes, At, Update, Same, form, expenses
<1> HIDE DEF r
<1>2. Paid(r, lists, receipts)
  BY <1>1 DEF Paid, Forming
<1>3. request[p].pc \in Before /\ r.pc \in Before
  BY <1>1 DEF Before, Early
<1>4. Stored(r, details, lists, receipts)
  BY <1>1, <1>2, <1>3, OwnStored, EarlyStored
<1> QED
  BY <1>1, <1>4, StoredMoves DEF InFlight

LEMMA DeleteReceiptsStored ==
    ASSUME Inv, AllStored, NEW p \in Requests, DeleteReceipts(p)
    PROVE  AllStored'
<1> DEFINE r == [request[p] EXCEPT !.pc = "purge", !.stale = {}]
<1>1. /\ request[p].pc = "receipts" /\ request' = [request EXCEPT ![p] = r]
      /\ r.pc = "purge" /\ Same(request[p], r)
      /\ details' = details /\ lists' = lists
  BY OwnStored DEF DeleteReceipts, Goes, At, Update, Same, form
<1> HIDE DEF r
<1>2. PICK q, D, L, R, R2 : /\ q = request[p] /\ D = details /\ L = lists
                            /\ R = receipts /\ R2 = receipts'
  OBVIOUS
<1>3. Paid(r, L, R2)
  BY <1>1 DEF Paid, Forming
<1>4. q.pc \in Before /\ r.pc \in Before /\ Stored(q, D, L, R) /\ Same(q, r)
  BY <1>1, <1>2, OwnStored DEF Before, Early
<1>5. Stored(r, D, L, R2)
  BY <1>3, <1>4, EarlyStored
<1> QED
  BY <1>1, <1>2, <1>5, StoredMoves DEF InFlight

LEMMA DeleteListsStored ==
    ASSUME Inv, AllStored, NEW p \in Requests, DeleteLists(p)
    PROVE  AllStored'
<1> PICK q \in Update : q = request[p]
  BY OwnStored
<1>1. PICK r : r = IF q.left = <<>> THEN PastExpenses(q) ELSE [q EXCEPT !.pc = "insert"]
  OBVIOUS
<1>2. /\ q.pc = "purge" /\ request' = [request EXCEPT ![p] = r]
      /\ details' = details /\ lists' = {} /\ receipts' = {}
  BY <1>1 DEF DeleteLists, DeleteListsUnchecked, At, Goes, form
<1>3. q.left = q.content.inserts /\ q.left \in Seq({"expense", "receipt"})
  BY <1>2, OwnStored DEF Sound, Early, Update
<1>4. /\ Same(q, r)
      /\ \/ r.pc = "insert" /\ r.left = q.left
         \/ r.pc = (IF q.content.form THEN "form" ELSE "done") /\ q.left = <<>>
  BY <1>1, PastIs DEF Update, Same
<1>5. Paid(r, {}, {})
  <2>1. Inserting(q.left, q.left, {}, {})
    BY <1>3, InsertsBegin
  <2> QED
    BY <1>3, <1>4, <2>1 DEF Paid, Same, Forming
<1>6. PICK D, L, R : D = details /\ L = lists /\ R = receipts
  OBVIOUS
<1>7. /\ q.pc \in Before /\ Stored(q, D, L, R)
      /\ r.pc \in Before \/ (r.pc = "done" /\ ~ q.content.form)
  BY <1>2, <1>4, <1>6, OwnStored DEF Before, Early
<1>8. Stored(r, D, {}, {})
  BY <1>4, <1>5, <1>7, EarlyStored
<1> QED
  BY <1>2, <1>6, <1>8, StoredMoves DEF InFlight

(* What an insert of the expenses stores. *)
LEMMA InsertedStored ==
    ASSUME NEW q \in Update, NEW x \in Update, NEW D, NEW L, NEW R, NEW L2, NEW R2, NEW row,
           Stored(q, D, L, R), q.pc = "insert", q.content.inserts \in Seq({"expense", "receipt"}),
           Same(q, x), x.pc = q.pc, x.left = q.left, q.left # <<>>,
           \/ Head(q.left) = "expense" /\ L2 = L \cup {row} /\ row \notin L /\ R2 = R
           \/ Head(q.left) = "receipt" /\ R2 = R \cup {row} /\ row \notin R /\ L2 = L
    PROVE  Stored(Inserted(x), D, L2, R2)
<1>1. PICK r : r = Inserted(x)
  OBVIOUS
<1>2. /\ Same(q, r) /\ r.left = Tail(q.left)
      /\ \/ r.pc = "insert"
         \/ Tail(q.left) = <<>> /\ r.pc = IF q.content.form THEN "form" ELSE "done"
  BY <1>1, InsertedIs DEF Same
<1>3. q.left \in Seq({"expense", "receipt"})
  BY DEF Update
<1>4. ASSUME q.met = {} PROVE Paid(r, L2, R2)
  <2>1. q.content.inserts # Nil => Inserting(q.content.inserts, q.left, L, R)
    BY <1>4 DEF Stored, Paid
  <2>2. q.content.inserts # Nil => Inserting(q.content.inserts, Tail(q.left), L2, R2)
    BY <1>3, <2>1, InsertsOn
  <2> QED
    BY <1>2, <2>2 DEF Paid, Same, Forming
<1>5. q.pc \in Before /\ (r.pc \in Before \/ (r.pc = "done" /\ ~ q.content.form))
  BY <1>2 DEF Before, Early
<1>6. Stored(r, D, L2, R2)
  BY <1>2, <1>4, <1>5, EarlyStored
<1> QED
  BY <1>1, <1>6

LEMMA CreateExpenseStored ==
    ASSUME Inv, AllStored, NEW p \in Requests, CreateExpense(p)
    PROVE  AllStored'
<1> PICK q \in Update : q = request[p]
  BY OwnStored
<1>1. PICK n, x, row : n = given'.list /\ x = [q EXCEPT !.target = n]
                       /\ row = [id |-> n, by |-> q.by]
  OBVIOUS
<1>2. /\ q.pc = "insert" /\ request' = [request EXCEPT ![p] = Inserted(x)]
      /\ details' = details /\ receipts' = receipts /\ lists' = lists \cup {row}
      /\ n = given.list + 1 /\ given.list \in Nat /\ Head(q.left) = "expense"
  BY <1>1, ExpenseTypes DEF CreateExpense, At, Goes, form
<1>3. row \notin lists
  BY <1>1, <1>2, ExpenseTypes
<1>4. /\ q.left # <<>> /\ q.content.inserts \in Seq({"expense", "receipt"})
  <2>1. q.left # <<>> /\ q.content.inserts # Nil /\ q.content \in Contents
    BY <1>2, OwnStored DEF Sound, Early
  <2> QED
    BY <2>1, ReportAssumption
<1>5. x \in Update /\ Same(q, x) /\ x.pc = q.pc /\ x.left = q.left
  <2>1. n \in Nat /\ x = [q EXCEPT !.target = n]
    BY <1>1, <1>2
  <2> QED
    BY <2>1 DEF Update, Same
<1>6. PICK D, L, R, L2 : /\ D = details /\ L = lists /\ R = receipts /\ L2 = lists'
  OBVIOUS
<1>7. Stored(Inserted(x), D, L2, R)
  BY <1>2, <1>3, <1>4, <1>5, <1>6, OwnStored, InsertedStored
<1> QED
  BY <1>2, <1>6, <1>7, StoredMoves DEF InFlight

LEMMA CreateReceiptStored ==
    ASSUME Inv, AllStored, NEW p \in Requests, CreateReceipt(p)
    PROVE  AllStored'
<1> PICK q \in Update : q = request[p]
  BY OwnStored
<1>1. PICK row : row = [id |-> given'.receipt, list |-> q.target, by |-> q.by]
  OBVIOUS
<1>2. /\ q.pc = "insert" /\ request' = [request EXCEPT ![p] = Inserted(q)]
      /\ details' = details /\ lists' = lists /\ receipts' = receipts \cup {row}
      /\ given'.receipt = given.receipt + 1 /\ given.receipt \in Nat
      /\ Head(q.left) = "receipt"
  BY <1>1, ExpenseTypes DEF CreateReceipt, At, Goes, form
<1>3. row \notin receipts
  BY <1>1, <1>2, ExpenseTypes
<1>4. /\ q.left # <<>> /\ q.content.inserts \in Seq({"expense", "receipt"}) /\ Same(q, q)
  <2>1. q.left # <<>> /\ q.content.inserts # Nil /\ q.content \in Contents
    BY <1>2, OwnStored DEF Sound, Early
  <2> QED
    BY <2>1, ReportAssumption DEF Same
<1>5. PICK D, L, R, R2 : /\ D = details /\ L = lists /\ R = receipts /\ R2 = receipts'
  OBVIOUS
<1>6. Stored(Inserted(q), D, L, R2)
  BY <1>2, <1>3, <1>4, <1>5, OwnStored, InsertedStored
<1> QED
  BY <1>2, <1>5, <1>6, StoredMoves DEF InFlight

(* On its way to a form it changes no row. *)
LEMMA TowardsStored ==
    ASSUME Inv, AllStored, NEW p \in Requests, NEW r, request' = [request EXCEPT ![p] = r],
           request[p].pc \in Before \cap Forming, Same(request[p], r),
           r.pc \in Before \cap Forming,
           details' = details, lists' = lists, receipts' = receipts
    PROVE  AllStored'
<1>1. PICK q, D, L, R : q = request[p] /\ D = details /\ L = lists /\ R = receipts
  OBVIOUS
<1>2. Stored(q, D, L, R) /\ q.pc # "idle"
  BY <1>1, OwnStored DEF Forming
<1>3. q.met = {} => Paid(q, L, R)
  BY <1>2 DEF Stored
<1>4. q.met = {} => Paid(r, L, R)
  BY <1>1, <1>3, PaidStays DEF Same
<1>5. Stored(r, D, L, R)
  BY <1>1, <1>2, <1>4, EarlyStored
<1> QED
  BY <1>1, <1>2, <1>5, StoredMoves DEF InFlight

(* And comes to the first list with no row of its own. *)
LEMMA FirstStored ==
    ASSUME Inv, AllStored, NEW p \in Requests, NEW r \in Update,
           request' = [request EXCEPT ![p] = r],
           request[p].pc \in Before \cap Forming, Same(request[p], r),
           r.pc \in {"current", "sync"}, r.kind = 1, r.stale = {},
           r.keep = r.body.keep[1], r.new = r.body.new[1],
           details' = details, lists' = lists, receipts' = receipts
    PROVE  AllStored'
<1>1. PICK q, D, L, R : q = request[p] /\ D = details /\ L = lists /\ R = receipts
  OBVIOUS
<1>2. Stored(q, D, L, R) /\ q.pc # "idle"
  BY <1>1, OwnStored DEF Forming
<1>3. q.met = {} => Paid(q, L, R) /\ \A k \in Kinds : Untouched(q, k, D)
  BY <1>1, <1>2 DEF Stored
<1>4. q.met = {} => Paid(r, L, R)
  BY <1>1, <1>3, PaidStays DEF Same, Forming
<1>5. q.met = {} => \A k \in Kinds : Untouched(r, k, D)
  BY <1>1, <1>3 DEF Untouched, Same
<1>6. \A k \in Kinds : ~ k < 1
  BY DEF Kinds
<1>7. Stored(r, D, L, R)
  BY <1>1, <1>4, <1>5, <1>6, EnteredStored DEF Same
<1> QED
  BY <1>1, <1>2, <1>7, StoredMoves DEF InFlight

LEMMA FindFormStored ==
    ASSUME Inv, AllStored, NEW p \in Requests, FindForm(p)
    PROVE  AllStored'
<1> PICK q \in Update : q = request[p]
  BY OwnStored
<1>1. /\ q.pc = "form" /\ details' = details /\ lists' = lists /\ receipts' = receipts
      /\ q.stale = {}
  BY OwnStored DEF FindForm, At, form, expenses, Sound
<1>2. q.pc \in Before \cap Forming
  BY <1>1 DEF Before, Forming
<1>3. CASE q.body.traveller = Nil
  <2>1. PICK r : r = [q EXCEPT !.pc = "traveller", !.fresh = TRUE]
    OBVIOUS
  <2>2. request' = [request EXCEPT ![p] = r] /\ Same(q, r) /\ r.pc \in Before \cap Forming
    BY <1>3, <2>1 DEF FindForm, Goes, Update, Same, Before, Forming
  <2> QED
    BY <1>1, <1>2, <2>2, TowardsStored
<1>4. CASE q.body.traveller # Nil
  <2>1. PICK f \in FormsOf(q.body.traveller) :
            request' = [request EXCEPT ![p] = Enters([q EXCEPT !.target = f], 1)]
    BY <1>4 DEF FindForm, Goes
  <2>2. f \in Nat
    BY UpdateFacts DEF FormsOf
  <2>3. PICK x : x = [q EXCEPT !.target = f]
    OBVIOUS
  <2>4. x \in Update /\ Same(q, x) /\ x.stale = {}
    BY <1>1, <2>2, <2>3 DEF Update, Same
  <2>5. PICK r : r = Enters(x, 1)
    OBVIOUS
  <2>6. /\ r \in Update /\ Same(q, r) /\ r.pc \in {"current", "sync"} /\ r.kind = 1
        /\ r.stale = {} /\ r.keep = r.body.keep[1] /\ r.new = r.body.new[1]
    BY <2>4, <2>5, KindsAre, EntersIs DEF Same
  <2>7. request' = [request EXCEPT ![p] = r]
    BY <2>1, <2>3, <2>5
  <2> QED
    BY <1>1, <1>2, <2>6, <2>7, FirstStored
<1> QED
  BY <1>3, <1>4

LEMMA FindTravellerStored ==
    ASSUME Inv, AllStored, NEW p \in Requests, FindTraveller(p)
    PROVE  AllStored'
<1> PICK q \in Update : q = request[p]
  BY OwnStored
<1>1. /\ q.pc = "traveller" /\ details' = details /\ lists' = lists /\ receipts' = receipts
  BY DEF FindTraveller, At, form, expenses
<1>2. PICK r : /\ request' = [request EXCEPT ![p] = r]
               /\ Same(q, r) /\ r.pc \in {"newTraveller", "newForm"}
  <2>1. CASE Named(q.body.name) = {}
    <3> DEFINE r == [q EXCEPT !.pc = "newTraveller"]
    <3>1. request' = [request EXCEPT ![p] = r] /\ Same(q, r) /\ r.pc = "newTraveller"
      BY <2>1 DEF FindTraveller, Goes, Update, Same
    <3> QED
      BY <3>1
  <2>2. CASE Named(q.body.name) # {}
    <3>1. PICK t \in Named(q.body.name) :
              request' = [request EXCEPT ![p] = [q EXCEPT !.pc = "newForm", !.target = t]]
      BY <2>2 DEF FindTraveller, Goes
    <3> DEFINE r == [q EXCEPT !.pc = "newForm", !.target = t]
    <3>2. request' = [request EXCEPT ![p] = r] /\ Same(q, r) /\ r.pc = "newForm"
      BY <3>1 DEF Update, Same
    <3> QED
      BY <3>2
  <2> QED
    BY <2>1, <2>2
<1>3. q.pc \in Before \cap Forming /\ r.pc \in Before \cap Forming
  BY <1>1, <1>2 DEF Before, Forming
<1> QED
  BY <1>1, <1>2, <1>3, TowardsStored

LEMMA CreateTravellerStored ==
    ASSUME Inv, AllStored, NEW p \in Requests, CreateTraveller(p)
    PROVE  AllStored'
<1> PICK q \in Update : q = request[p]
  BY OwnStored
<1>1. PICK r : r = [q EXCEPT !.pc = "newForm", !.target = Len(travellers')]
  OBVIOUS
<1>2. /\ q.pc = "newTraveller" /\ request' = [request EXCEPT ![p] = r]
      /\ details' = details /\ lists' = lists /\ receipts' = receipts
      /\ Same(q, r) /\ r.pc = "newForm"
  BY <1>1 DEF CreateTraveller, At, Goes, Update, Same, expenses
<1>3. q.pc \in Before \cap Forming /\ r.pc \in Before \cap Forming
  BY <1>2 DEF Before, Forming
<1> QED
  BY <1>2, <1>3, TowardsStored

LEMMA CreateFormStored ==
    ASSUME Inv, AllStored, NEW p \in Requests, CreateForm(p)
    PROVE  AllStored'
<1> PICK q \in Update : q = request[p]
  BY OwnStored
<1>1. PICK x, r : x = [q EXCEPT !.target = Len(forms')] /\ r = Enters(x, 1)
  OBVIOUS
<1>2. /\ q.pc = "newForm" /\ request' = [request EXCEPT ![p] = r]
      /\ details' = details /\ lists' = lists /\ receipts' = receipts
      /\ forms' = Append(forms, q.target)
  BY <1>1 DEF CreateForm, At, Goes, expenses
<1>3. Len(forms') \in Nat
  <2>1. q.target \in DOMAIN travellers
    BY <1>2, UpdateFacts DEF Sound
  <2> QED
    BY <1>2, <2>1, FormTypes, AppendProperties, LenProperties
<1>4. x \in Update /\ Same(q, x) /\ x.stale = {}
  BY <1>1, <1>2, <1>3, OwnStored DEF Update, Same, Sound
<1>5. r = Enters(x, 1) /\ 1 \in Kinds
  BY <1>1, KindsAre
<1>6. /\ r \in Update /\ Same(q, r) /\ r.pc \in {"current", "sync"} /\ r.kind = 1
      /\ r.stale = {} /\ r.keep = r.body.keep[1] /\ r.new = r.body.new[1]
  BY <1>4, <1>5, EntersIs DEF Same
<1>7. q.pc \in Before \cap Forming
  BY <1>2 DEF Before, Forming
<1> QED
  BY <1>2, <1>6, <1>7, FirstStored

(* A step within a list touches no other list. *)
LEMMA SyncStored ==
    ASSUME NEW q \in Update, NEW r, NEW D, NEW D2, NEW L, NEW R, Stored(q, D, L, R),
           q.pc = "sync", r.pc = "sync", Same(q, r), r.target = q.target, r.kind = q.kind,
           \A d \in D : d.kind # q.kind => d \in D2,
           \A d \in D2 : d.kind # q.kind => d \in D,
           q.met = {} => Saving(r, D2)
    PROVE  Stored(r, D2, L, R)
<1>1. q.kind \in Nat
  BY KindsAre DEF Update
<1>2. ASSUME q.met = {} PROVE Paid(r, L, R)
  <2>1. Paid(q, L, R) /\ r.content = q.content
    BY <1>2 DEF Stored, Same
  <2> QED
    BY <2>1, PaidStays DEF Forming
<1>3. ASSUME q.met = {}, NEW k \in Kinds
      PROVE  /\ k < r.kind => Saved(r, k, r.body.keep[k], r.body.new[k], D2)
             /\ k > r.kind => Untouched(r, k, D2)
  <2>1. CASE k = q.kind
    BY <1>1, <2>1
  <2>2. CASE k # q.kind
    <3>1. /\ r.by = q.by /\ r.target = q.target /\ r.body = q.body
          /\ \A d \in D : d.kind = k => d \in D2
          /\ \A d \in D2 : d.kind = k => d \in D
      BY <2>2 DEF Same
    <3>2. /\ Untouched(q, k, D) => Untouched(r, k, D2)
          /\ \A K, m : Saved(q, k, K, m, D) => Saved(r, k, K, m, D2)
      BY <3>1, SavedStays
    <3>3. /\ k < q.kind => Saved(q, k, q.body.keep[k], q.body.new[k], D)
          /\ k > q.kind => Untouched(q, k, D)
      BY <1>3 DEF Stored
    <3> QED
      BY <3>1, <3>2, <3>3
  <2> QED
    BY <2>1, <2>2
<1> QED
  BY <1>2, <1>3 DEF Stored, Same, Before, Early

LEMMA FindCurrentStored ==
    ASSUME Inv, AllStored, NEW p \in Requests, FindCurrent(p)
    PROVE  AllStored'
<1> PICK q \in Update : q = request[p]
  BY OwnStored
<1> PICK s : s = Ids(Rows(q.target, q.kind)) \ q.keep
  OBVIOUS
<1>1. PICK r : r = [q EXCEPT !.pc = "sync", !.stale = s]
  OBVIOUS
<1>2. /\ q.pc = "current" /\ request' = [request EXCEPT ![p] = r]
      /\ details' = details /\ lists' = lists /\ receipts' = receipts
  BY <1>1 DEF FindCurrent, At, Goes, form, expenses
<1>3. /\ r.pc = "sync" /\ Same(q, r) /\ r.target = q.target /\ r.kind = q.kind
      /\ r.keep = q.keep /\ r.new = q.new /\ r.stale \cap q.keep = {}
  BY <1>1 DEF Update, Same
<1>4. /\ q.keep = q.body.keep[q.kind] /\ q.new = q.body.new[q.kind] /\ q.new \in Nat
  BY <1>2, OwnStored DEF Sound, Update
<1>5. PICK D, L, R : D = details /\ L = lists /\ R = receipts
  OBVIOUS
<1>6. Stored(q, D, L, R)
  BY <1>5, OwnStored
<1>7. ASSUME q.met = {}
      PROVE  /\ Paid(r, L, R) /\ Saving(r, D)
             /\ \A k \in Kinds :
                    /\ k < r.kind => Saved(r, k, r.body.keep[k], r.body.new[k], D)
                    /\ k > r.kind => Untouched(r, k, D)
  <2>1. Paid(r, L, R)
    <3>1. Paid(q, L, R) /\ r.content = q.content
      BY <1>3, <1>6, <1>7, <1>2 DEF Stored, Same
    <3> QED
      BY <1>2, <1>3, <3>1, PaidStays DEF Forming
  <2>2. ASSUME NEW k
        PROVE  /\ Untouched(q, k, D) => Untouched(r, k, D)
               /\ \A K, m : Saved(q, k, K, m, D) => Saved(r, k, K, m, D)
    <3>1. r.by = q.by /\ r.target = q.target /\ r.body = q.body
      BY <1>3 DEF Same
    <3> QED
      BY <3>1, SavedStays
  <2>3. Untouched(r, r.kind, D)
    BY <1>2, <1>3, <1>6, <1>7, <2>2 DEF Stored
  <2>4. Saved(r, r.kind, {}, 0, D)
    BY <2>3, UntouchedSaved
  <2>5. /\ r.keep = r.body.keep[r.kind] /\ r.new = r.body.new[r.kind]
        /\ r.body.keep[r.kind] \ r.keep = {} /\ r.body.new[r.kind] - r.new = 0
    BY <1>3, <1>4 DEF Same
  <2>6. Saving(r, D)
    BY <1>3, <2>3, <2>4, <2>5 DEF Saving
  <2>7. \A k \in Kinds :
            /\ k < q.kind => Saved(q, k, q.body.keep[k], q.body.new[k], D)
            /\ k > q.kind => Untouched(q, k, D)
    BY <1>2, <1>6, <1>7 DEF Stored
  <2>8. r.body = q.body
    BY <1>3 DEF Same
  <2> QED
    BY <1>3, <2>1, <2>2, <2>6, <2>7, <2>8
<1>8. Stored(r, D, L, R)
  BY <1>3, <1>7 DEF Stored, Same, Before, Early
<1> QED
  BY <1>2, <1>5, <1>8, StoredMoves DEF InFlight

LEMMA DeleteDetailStored ==
    ASSUME Inv, AllStored, NEW p \in Requests, DeleteDetail(p)
    PROVE  AllStored'
<1> PICK q \in Update : q = request[p]
  BY OwnStored
<1>1. PICK id \in q.stale :
          /\ request' = [request EXCEPT ![p] = [q EXCEPT !.stale = q.stale \ {id}]]
          /\ details' = {d \in details : ~ (d.id = id /\ d.kind = q.kind)}
  BY DEF DeleteDetail, Goes
<1>2. q.pc = "sync" /\ lists' = lists /\ receipts' = receipts
  BY DEF DeleteDetail, At, expenses
<1>3. PICK r : r = [q EXCEPT !.stale = q.stale \ {id}]
  OBVIOUS
<1>4. /\ r.pc = "sync" /\ Same(q, r) /\ r.target = q.target /\ r.kind = q.kind
      /\ r.keep = q.keep /\ r.new = q.new /\ r.stale \subseteq q.stale
  BY <1>2, <1>3 DEF Update, Same
<1>5. PICK D, L, R, D2 : D = details /\ L = lists /\ R = receipts /\ D2 = details'
  OBVIOUS
<1>6. Stored(q, D, L, R)
  BY <1>5, OwnStored
<1>7. /\ D2 \subseteq D /\ \A d \in D : d.kind # q.kind => d \in D2
  BY <1>1, <1>5
<1>8. ASSUME q.met = {} PROVE Saving(r, D2)
  <2>1. Saving(q, D) /\ q.stale # {}
    BY <1>2, <1>6, <1>8 DEF Stored
  <2>2. Untouched(r, r.kind, D2)
    BY <1>4, <1>7, <2>1 DEF Saving, Untouched, Same
  <2>3. Saved(r, r.kind, {}, 0, D2)
    BY <2>2, UntouchedSaved
  <2>4. /\ r.keep = r.body.keep[r.kind] /\ r.new = r.body.new[r.kind]
        /\ r.stale \cap r.body.keep[r.kind] = {}
    BY <1>4, <2>1 DEF Saving, Same
  <2>5. r.new \in Nat
    BY <1>4 DEF Update
  <2>6. r.body.keep[r.kind] \ r.keep = {} /\ r.body.new[r.kind] - r.new = 0
    BY <2>4, <2>5
  <2> QED
    BY <2>2, <2>3, <2>4, <2>6 DEF Saving
<1>9. Stored(r, D2, L, R)
  BY <1>2, <1>4, <1>6, <1>7, <1>8, SyncStored
<1>10. request' = [request EXCEPT ![p] = r]
  BY <1>1, <1>3
<1> QED
  BY <1>2, <1>5, <1>9, <1>10, StoredMoves DEF InFlight

(* One more row is rewritten. *)
LEMMA RewriteSaved ==
    ASSUME NEW q, NEW k, NEW K, NEW m, NEW D, NEW id, Saved(q, k, K, m, D),
           id \in q.body.keep[k], k \in Strict => \E d \in D : d.kind = k /\ d.id = id,
           \A d \in D : d = [id |-> d.id, kind |-> d.kind, form |-> d.form, by |-> d.by],
           NEW D2, D2 = {IF d.id = id /\ d.kind = k THEN [d EXCEPT !.by = q.by] ELSE d : d \in D}
    PROVE  Saved(q, k, K \cup {id}, m, D2)
<1>1. ASSUME NEW d \in D
      PROVE  \E e \in D2 : e.id = d.id /\ e.kind = d.kind
  <2>1. CASE d.id = id /\ d.kind = k
    <3>1. [d EXCEPT !.by = q.by] \in D2
      BY <2>1
    <3>2. [d EXCEPT !.by = q.by].id = d.id /\ [d EXCEPT !.by = q.by].kind = d.kind
      OBVIOUS
    <3> QED
      BY <3>1, <3>2
  <2>2. CASE ~ (d.id = id /\ d.kind = k)
    BY <2>2
  <2> QED
    BY <2>1, <2>2
<1>2. ASSUME NEW e \in D2
      PROVE  \/ e.by = q.by /\ e.id = id
             \/ e \in D /\ ~ (e.id = id /\ e.kind = k)
  <2>1. PICK d \in D : e = IF d.id = id /\ d.kind = k THEN [d EXCEPT !.by = q.by] ELSE d
    OBVIOUS
  <2>2. /\ [d EXCEPT !.by = q.by].id = d.id /\ [d EXCEPT !.by = q.by].by = q.by
    OBVIOUS
  <2> QED
    BY <2>1, <2>2
<1>3. FreshRows(q, k, D2) = FreshRows(q, k, D)
  <2>1. ASSUME NEW d \in FreshRows(q, k, D) PROVE d \in FreshRows(q, k, D2)
    <3>1. d \in D /\ d.id # id
      BY DEF FreshRows
    <3>2. d \in D2
      BY <3>1
    <3> QED
      BY <3>2 DEF FreshRows
  <2>2. ASSUME NEW d \in FreshRows(q, k, D2) PROVE d \in FreshRows(q, k, D)
    BY <1>2 DEF FreshRows
  <2> QED
    BY <2>1, <2>2
<1>4. \A d \in D2 : d.kind = k /\ d.id \in K \cup {id} => d.by = q.by
  BY <1>2 DEF Saved
<1>5. ASSUME k \in Strict, NEW i \in K \cup {id}
      PROVE  \E d \in D2 : d.kind = k /\ d.id = i
  <2>1. PICK d \in D : d.kind = k /\ d.id = i
    BY <1>5 DEF Saved
  <2> QED
    BY <1>1, <2>1
<1> QED
  BY <1>3, <1>4, <1>5 DEF Saved

LEMMA UpdateDetailStored ==
    ASSUME Inv, AllStored, NEW p \in Requests, UpdateDetail(p)
    PROVE  AllStored'
<1> DEFINE q == request[p]
<1>1. PICK id \in q.keep :
          /\ q.kind \in Strict => id \in Ids(Of(q.kind))
          /\ request' = [request EXCEPT ![p] = [q EXCEPT !.keep = q.keep \ {id}]]
          /\ details' = {IF d.id = id /\ d.kind = q.kind THEN [d EXCEPT !.by = q.by] ELSE d :
                            d \in details}
  BY DEF UpdateDetail, Goes
<1>2. /\ q \in Update /\ q.pc = "sync" /\ q.stale = {}
      /\ lists' = lists /\ receipts' = receipts
  BY OwnStored DEF UpdateDetail, At, expenses
<1>3. PICK r : r = [q EXCEPT !.keep = q.keep \ {id}]
  OBVIOUS
<1>4. /\ r.pc = "sync" /\ Same(q, r) /\ r.target = q.target /\ r.kind = q.kind
      /\ r.keep = q.keep \ {id} /\ r.new = q.new /\ r.stale = {}
  BY <1>2, <1>3 DEF Update, Same
<1>5. \A d \in details : /\ d = [id |-> d.id, kind |-> d.kind, form |-> d.form, by |-> d.by]
                         /\ [d EXCEPT !.by = q.by].kind = d.kind
  BY FormTypes
<1>6. PICK D, L, R, D2 : D = details /\ L = lists /\ R = receipts /\ D2 = details'
  OBVIOUS
<1>7. Stored(q, D, L, R)
  BY <1>6, OwnStored
<1>8. /\ \A d \in D : d.kind # q.kind => d \in D2
      /\ \A d \in D2 : d.kind # q.kind => d \in D
  BY <1>1, <1>5, <1>6
<1>9. ASSUME q.met = {} PROVE Saving(r, D2)
  <2>1. PICK k, keep, new : k = q.kind /\ keep = q.body.keep[k] /\ new = q.body.new[k]
    OBVIOUS
  <2>2. /\ q.keep \subseteq keep /\ Saved(q, k, keep \ q.keep, new - q.new, D)
    BY <1>2, <1>7, <1>9, <2>1 DEF Stored, Saving
  <2>3. k \in Strict => \E d \in D : d.kind = k /\ d.id = id
    BY <1>1, <1>6, <2>1 DEF Ids, Of
  <2>4. /\ id \in q.body.keep[k]
        /\ \A d \in D : d = [id |-> d.id, kind |-> d.kind, form |-> d.form, by |-> d.by]
        /\ D2 = {IF d.id = id /\ d.kind = k THEN [d EXCEPT !.by = q.by] ELSE d : d \in D}
    BY <1>1, <1>5, <1>6, <2>1, <2>2
  <2>5. Saved(q, k, (keep \ q.keep) \cup {id}, new - q.new, D2)
    BY <2>2, <2>3, <2>4, RewriteSaved
  <2>6. (keep \ q.keep) \cup {id} = keep \ r.keep
    BY <1>4, <2>1, <2>2, <2>4
  <2>7. Saved(q, k, keep \ r.keep, new - q.new, D2)
    BY <2>5, <2>6
  <2>8. r.by = q.by /\ r.target = q.target /\ r.body = q.body
    BY <1>4 DEF Same
  <2>9. \A K, m : Saved(q, k, K, m, D2) => Saved(r, k, K, m, D2)
    BY <2>8, SavedStays
  <2> QED
    BY <1>4, <2>1, <2>2, <2>7, <2>8, <2>9 DEF Saving
<1>10. Stored(r, D2, L, R)
  BY <1>2, <1>4, <1>7, <1>8, <1>9, SyncStored
<1>11. request' = [request EXCEPT ![p] = r]
  BY <1>1, <1>3
<1> QED
  BY <1>2, <1>6, <1>10, <1>11, StoredMoves DEF InFlight

(* One more row is new, of an id that no row has had. *)
LEMMA NewSaved ==
    ASSUME NEW q, NEW k, NEW K, NEW m, NEW D, Saved(q, k, K, m, D), NEW row,
           row.kind = k, row.form = q.target, row.by = q.by, row.id \notin q.body.keep[k],
           row \notin D, NEW D2, D2 = D \cup {row}
    PROVE  Saved(q, k, K, m + 1, D2)
<1>1. FreshRows(q, k, D2) = FreshRows(q, k, D) \cup {row} /\ row \notin FreshRows(q, k, D)
  BY DEF FreshRows
<1>2. PICK F : F = FreshRows(q, k, D)
  OBVIOUS
<1>3. IsFiniteSet(F) /\ Cardinality(F) = m /\ row \notin F
  BY <1>1, <1>2 DEF Saved
<1>4. IsFiniteSet(F \cup {row}) /\ Cardinality(F \cup {row}) = m + 1
  BY <1>3, FS_AddElement
<1>5. IsFiniteSet(FreshRows(q, k, D2)) /\ Cardinality(FreshRows(q, k, D2)) = m + 1
  BY <1>1, <1>2, <1>4
<1>6. \A d \in D2 : d.kind = k /\ d.id \in K => d.by = q.by
  BY DEF Saved
<1>7. k \in Strict => \A id \in K : \E d \in D2 : d.kind = k /\ d.id = id
  BY DEF Saved
<1> QED
  BY <1>5, <1>6, <1>7 DEF Saved

LEMMA CreateDetailStored ==
    ASSUME Inv, AllStored, NEW p \in Requests, CreateDetail(p)
    PROVE  AllStored'
<1> PICK q \in Update : q = request[p]
  BY OwnStored
<1>1. PICK r, row : /\ r = [q EXCEPT !.new = q.new - 1]
                    /\ row = [id |-> given'.detail[q.kind], kind |-> q.kind,
                              form |-> q.target, by |-> q.by]
  OBVIOUS
<1>2. /\ q.pc = "sync" /\ q.stale = {} /\ q.new > 0
      /\ request' = [request EXCEPT ![p] = r] /\ details' = details \cup {row}
      /\ given' = [given EXCEPT !.detail[q.kind] = given.detail[q.kind] + 1]
      /\ lists' = lists /\ receipts' = receipts
  BY <1>1 DEF CreateDetail, At, Goes, expenses
<1>3. /\ q.kind \in Kinds /\ given.detail[q.kind] \in Nat
      /\ row.id = given.detail[q.kind] + 1
  BY <1>1, <1>2, FormTypes DEF Update
<1>4. /\ r.pc = "sync" /\ Same(q, r) /\ r.target = q.target /\ r.kind = q.kind
      /\ r.keep = q.keep /\ r.new = q.new - 1 /\ r.stale = {}
  BY <1>1, <1>2 DEF Update, Same
<1>5. PICK D, L, R, D2 : D = details /\ L = lists /\ R = receipts /\ D2 = details'
  OBVIOUS
<1>6. Stored(q, D, L, R)
  BY <1>5, OwnStored
<1>7. /\ D2 = D \cup {row} /\ row.kind = q.kind /\ row.form = q.target /\ row.by = q.by
  BY <1>1, <1>2, <1>5
<1>8. row \notin D
  <2>1. \A d \in details : d.kind = q.kind => d.id \in 1..given.detail[q.kind]
    BY FormTypes
  <2> QED
    BY <1>3, <1>5, <1>7, <2>1
<1>9. row.id \notin q.body.keep[q.kind]
  <2>1. q.body.keep[q.kind] \subseteq 1..given.detail[q.kind]
    BY <1>3, OwnStored DEF Sound
  <2> QED
    BY <1>3, <2>1
<1>10. ASSUME q.met = {} PROVE Saving(r, D2)
  <2>1. PICK k, keep, new : k = q.kind /\ keep = q.body.keep[k] /\ new = q.body.new[k]
    OBVIOUS
  <2>2. q.keep \subseteq keep /\ Saved(q, k, keep \ q.keep, new - q.new, D)
    BY <1>2, <1>6, <1>10, <2>1 DEF Stored, Saving
  <2>3. Saved(q, k, keep \ q.keep, (new - q.new) + 1, D2)
    BY <1>7, <1>8, <1>9, <2>1, <2>2, NewSaved
  <2>4. new \in Nat /\ q.new \in Nat
    BY <1>3, <2>1, BodyFacts DEF Update
  <2>5. (new - q.new) + 1 = new - r.new /\ keep \ q.keep = keep \ r.keep
    BY <1>4, <2>4
  <2>6. r.by = q.by /\ r.target = q.target /\ r.body = q.body
    BY <1>4 DEF Same
  <2>7. \A K, m : Saved(q, k, K, m, D2) => Saved(r, k, K, m, D2)
    BY <2>6, SavedStays
  <2>8. Saved(r, k, keep \ r.keep, new - r.new, D2)
    BY <2>3, <2>5, <2>7
  <2> QED
    BY <1>4, <2>1, <2>2, <2>6, <2>8 DEF Saving
<1>11. Stored(r, D2, L, R)
  BY <1>2, <1>4, <1>6, <1>7, <1>10, SyncStored
<1> QED
  BY <1>2, <1>5, <1>11, StoredMoves DEF InFlight

(* A list is left with all of it stored. *)
LEMMA NextListStored ==
    ASSUME Inv, AllStored, NEW p \in Requests, NextList(p)
    PROVE  AllStored'
<1> PICK q \in Update : q = request[p]
  BY OwnStored
<1>1. /\ q.pc = "sync" /\ q.stale = {} /\ q.keep = {} /\ q.new = 0
      /\ details' = details /\ lists' = lists /\ receipts' = receipts
  BY DEF NextList, At, form, expenses
<1>2. PICK D, L, R : D = details /\ L = lists /\ R = receipts
  OBVIOUS
<1>3. Stored(q, D, L, R)
  BY <1>2, OwnStored
<1>4. q.kind \in Kinds /\ Kinds \subseteq Nat /\ q.body.new[q.kind] \in Nat
  BY KindsAre, BodyFacts DEF Update
<1>5. ASSUME q.met = {}
      PROVE  /\ Paid(q, L, R)
             /\ \A k \in Kinds :
                    /\ k < q.kind \/ k = q.kind =>
                           Saved(q, k, q.body.keep[k], q.body.new[k], D)
                    /\ k > q.kind => Untouched(q, k, D)
  <2>1. Saved(q, q.kind, q.body.keep[q.kind] \ q.keep, q.body.new[q.kind] - q.new, D)
    BY <1>1, <1>3, <1>5 DEF Stored, Saving
  <2>2. /\ q.body.keep[q.kind] \ q.keep = q.body.keep[q.kind]
        /\ q.body.new[q.kind] - q.new = q.body.new[q.kind]
    BY <1>1, <1>4
  <2>3. Saved(q, q.kind, q.body.keep[q.kind], q.body.new[q.kind], D)
    BY <2>1, <2>2
  <2> QED
    BY <1>1, <1>3, <1>5, <2>3 DEF Stored
<1>6. CASE q.kind + 1 \in Kinds
  <2>1. PICK r : r = Enters(q, q.kind + 1)
    OBVIOUS
  <2>2. request' = [request EXCEPT ![p] = r]
    BY <1>6, <2>1 DEF NextList, Goes
  <2>3. /\ r \in Update /\ Same(q, r) /\ r.pc \in {"current", "sync"}
        /\ r.target = q.target /\ r.kind = q.kind + 1 /\ r.stale = {}
        /\ r.keep = q.body.keep[q.kind + 1] /\ r.new = q.body.new[q.kind + 1]
    BY <1>1, <1>6, <2>1, EntersIs
  <2>4. r.by = q.by /\ r.target = q.target /\ r.body = q.body /\ r.met = q.met
    BY <2>3 DEF Same
  <2>5. ASSUME NEW k
        PROVE  /\ Untouched(q, k, D) => Untouched(r, k, D)
               /\ \A K, m : Saved(q, k, K, m, D) => Saved(r, k, K, m, D)
    BY <2>4, SavedStays
  <2>6. \A k \in Kinds : /\ k < r.kind => k < q.kind \/ k = q.kind
                         /\ k >= r.kind => k > q.kind
    <3> TAKE k \in Kinds
    <3>1. k \in Nat /\ q.kind \in Nat
      BY <1>4
    <3> QED
      BY <2>3, <3>1
  <2>7. q.met = {} => \A k \in Kinds :
            /\ k < r.kind => Saved(r, k, r.body.keep[k], r.body.new[k], D)
            /\ k >= r.kind => Untouched(r, k, D)
    BY <1>5, <2>4, <2>5, <2>6
  <2>8. q.met = {} => Paid(r, L, R)
    BY <1>1, <1>5, <2>3, PaidStays DEF Same, Forming
  <2>9. Stored(r, D, L, R)
    BY <2>3, <2>4, <2>7, <2>8, EnteredStored
  <2> QED
    BY <1>1, <1>2, <2>2, <2>9, StoredMoves DEF InFlight
<1>7. CASE q.kind + 1 \notin Kinds
  <2>1. PICK r : r = [q EXCEPT !.pc = "done"]
    OBVIOUS
  <2>2. request' = [request EXCEPT ![p] = r]
    BY <1>7, <2>1 DEF NextList, Goes
  <2>3. Same(q, r) /\ r.pc = "done" /\ r.target = q.target
    BY <2>1 DEF Update, Same
  <2>4. r.by = q.by /\ r.target = q.target /\ r.body = q.body /\ r.met = q.met
    BY <2>3 DEF Same
  <2>5. ASSUME NEW k
        PROVE  \A K, m : Saved(q, k, K, m, D) => Saved(r, k, K, m, D)
    BY <2>4, SavedStays
  <2>6. \A k \in Kinds : k < q.kind \/ k = q.kind
    BY <1>4, <1>7, ReportAssumption DEF Kinds
  <2>7. q.met = {} => \A k \in Kinds : Saved(r, k, r.body.keep[k], r.body.new[k], D)
    BY <1>5, <2>4, <2>5, <2>6
  <2>8. q.met = {} => Paid(r, L, R)
    BY <1>1, <1>5, <2>3, PaidStays DEF Same, Forming
  <2>9. Stored(r, D, L, R)
    BY <2>3, <2>4, <2>7, <2>8 DEF Stored, Before, Early
  <2> QED
    BY <1>1, <1>2, <2>2, <2>9, StoredMoves DEF InFlight
<1> QED
  BY <1>6, <1>7

LEMMA ArriveStored ==
    ASSUME Inv, AllStored, NEW p \in Requests, Arrive(p)
    PROVE  AllStored'
<1>1. details' = details /\ lists' = lists /\ receipts' = receipts
  BY DEF Arrive, form, expenses
<1>2. PICK c \in Contents, b \in Body, q \in Update :
               /\ c.form => b \in Bodies
               /\ q = [Idle EXCEPT !.by = arrivals + 1, !.content = c, !.body = b,
                                   !.met = Others(p)]
               /\ q.pc = "idle" /\ q.by = arrivals + 1 /\ q.content = c /\ q.body = b
               /\ q.met = Others(p) /\ q.left = <<>> /\ q.fresh = FALSE /\ q.kind = 1
               /\ q.stale = {} /\ q.keep = {} /\ q.new = 0
               /\ \A k \in Kinds : b.keep[k] \subseteq 1..given.detail[k]
               /\ request'[p] = IF c.inserts = Nil THEN PastExpenses(q)
                                ELSE [q EXCEPT !.pc = "lists", !.left = c.inserts]
               /\ \A r \in Requests \ {p} :
                      request'[r] = IF InFlight(r) THEN Met(request[r], arrivals + 1)
                                    ELSE request[r]
               /\ request' = [r \in Requests |-> request'[r]]
  BY ArriveIs, Zenon
<1>3. Stored(request'[p], details, lists, receipts)
  <2>1. PICK m : m = request'[p]
    OBVIOUS
  <2>2. /\ m.by = arrivals + 1 /\ m.content = c
        /\ \/ m.pc = "lists"
           \/ m.pc = (IF c.form THEN "form" ELSE "done") /\ c.inserts = Nil
    <3>1. CASE c.inserts = Nil
      <4>1. q \in Update /\ q.by = arrivals + 1 /\ q.content = c /\ m = PastExpenses(q)
        BY <1>2, <2>1, <3>1
      <4>2. /\ Same(q, PastExpenses(q))
            /\ PastExpenses(q).pc = IF q.content.form THEN "form" ELSE "done"
        BY <4>1, PastIs
      <4> QED
        BY <3>1, <4>1, <4>2 DEF Same
    <3>2. CASE c.inserts # Nil
      <4>1. /\ q \in Update /\ q.by = arrivals + 1 /\ q.content = c
            /\ m = [q EXCEPT !.pc = "lists", !.left = c.inserts]
        BY <1>2, <2>1, <3>2
      <4> QED
        BY <4>1 DEF Update
    <3> QED
      BY <3>1, <3>2
  <2>3. \A d \in details : d.by # m.by
    <3>1. \A d \in details : d.by \in 1..arrivals
      BY FormTypes
    <3>2. arrivals \in Nat
      BY UpdateFacts
    <3> QED
      BY <2>2, <3>1, <3>2
  <2>4. \A k \in Kinds : Untouched(m, k, details)
    BY <2>3 DEF Untouched
  <2>5. Paid(m, lists, receipts)
    BY <2>2 DEF Paid, Forming
  <2>6. Stored(m, details, lists, receipts)
    BY <2>2, <2>4, <2>5 DEF Stored, Before, Early
  <2> QED
    BY <2>1, <2>6
<1>4. ASSUME NEW r \in Requests \ {p}
      PROVE  Stored(request'[r], details, lists, receipts)
  <2>1. CASE InFlight(r)
    <3>1. request'[r] = Met(request[r], arrivals + 1)
      BY <1>2, <2>1
    <3>2. request'[r].met # {}
      BY <3>1, OwnStored DEF Met, Update
    <3> QED
      BY <3>2 DEF Stored
  <2>2. CASE ~ InFlight(r)
    <3>1. request'[r] = request[r]
      BY <1>2, <2>2
    <3> QED
      BY <3>1, OwnStored
  <2> QED
    BY <2>1, <2>2
<1> QED
  BY <1>1, <1>3, <1>4 DEF AllStored

LEMMA StoredInvariance == Spec => []AllStored
<1>1. Init => AllStored
  BY IdleIs DEF Init, AllStored, Stored
<1>2. Inv /\ AllStored /\ [Next]_vars => AllStored'
  <2>1. ASSUME Inv, AllStored, UNCHANGED vars PROVE AllStored'
    <3>1. request' = request /\ details' = details /\ lists' = lists /\ receipts' = receipts
      BY <2>1 DEF vars, form, expenses
    <3> QED
      BY <2>1, <3>1 DEF AllStored
  <2> QED
    BY <2>1, ArriveStored, EndStored, FindListsStored, DeleteReceiptsStored,
       DeleteListsStored, CreateExpenseStored, CreateReceiptStored, FindFormStored,
       FindTravellerStored, CreateTravellerStored, CreateFormStored, FindCurrentStored,
       DeleteDetailStored, UpdateDetailStored, CreateDetailStored, NextListStored DEF Next
<1> QED
  BY <1>1, <1>2, Invariance, PTL DEF Spec

(* An update that met no other and is through has stored its body: every expense
   and receipt, the new rows and those it named, but for rows that were gone
   from a list that does not complain of it. *)
THEOREM SubmittedRowsAreStored == Spec => []SubmittedRowsStand
<1>1. ASSUME Inv, AllStored, NEW p \in Requests,
             request[p].pc = "done", request[p].met = {}
      PROVE  LET q == request[p]
                 Count(what) == Cardinality({i \in DOMAIN q.content.inserts :
                                                q.content.inserts[i] = what})
             IN  /\ q.content.inserts # Nil => Cardinality(lists) = Count("expense")
                                               /\ Cardinality(receipts) = Count("receipt")
                 /\ q.content.form => \A k \in Kinds :
                        /\ \A d \in Of(k) : d.id \in q.body.keep[k] => d.by = q.by
                        /\ Cardinality({d \in Rows(q.target, k) :
                                           d.by = q.by /\ d.id \notin q.body.keep[k]})
                           = q.body.new[k]
                        /\ k \in Strict => q.body.keep[k] \subseteq Ids(Of(k))
  <2> PICK q \in Update : q = request[p]
    BY <1>1, OwnStored
  <2>1. Stored(q, details, lists, receipts) /\ q.content \in Contents
    BY <1>1, OwnStored DEF Sound
  <2>2. ASSUME q.content.inserts # Nil
        PROVE  /\ Cardinality(lists) = Cardinality({i \in DOMAIN q.content.inserts :
                                                       q.content.inserts[i] = "expense"})
               /\ Cardinality(receipts) = Cardinality({i \in DOMAIN q.content.inserts :
                                                       q.content.inserts[i] = "receipt"})
    <3>1. PICK ins \in Seq({"expense", "receipt"}) : ins = q.content.inserts
      BY <2>1, <2>2, ReportAssumption
    <3>2. Inserting(ins, <<>>, lists, receipts)
      BY <1>1, <2>1, <2>2, <3>1 DEF Stored, Paid
    <3>3. DOMAIN ins = 1..Len(ins) /\ Len(ins) - Len(<<>>) = Len(ins)
      BY <3>1, LenProperties
    <3> QED
      BY <3>1, <3>2, <3>3 DEF Inserting, Many
  <2>3. ASSUME q.content.form, NEW k \in Kinds
        PROVE  /\ \A d \in Of(k) : d.id \in q.body.keep[k] => d.by = q.by
               /\ Cardinality({d \in Rows(q.target, k) :
                                  d.by = q.by /\ d.id \notin q.body.keep[k]}) = q.body.new[k]
               /\ k \in Strict => q.body.keep[k] \subseteq Ids(Of(k))
    <3>1. Saved(q, k, q.body.keep[k], q.body.new[k], details)
      BY <1>1, <2>1, <2>3 DEF Stored
    <3>2. {d \in Rows(q.target, k) : d.by = q.by /\ d.id \notin q.body.keep[k]}
          = FreshRows(q, k, details)
      BY DEF FreshRows, Rows, Of
    <3>3. k \in Strict => q.body.keep[k] \subseteq Ids(Of(k))
      BY <3>1 DEF Saved, Ids, Of
    <3> QED
      BY <3>1, <3>2, <3>3 DEF Saved, Of
  <2> QED
    BY <2>2, <2>3
<1>2. Inv /\ AllStored => SubmittedRowsStand
  BY <1>1 DEF SubmittedRowsStand
<1> QED
  BY Invariance, StoredInvariance, <1>2, PTL
=============================================================================

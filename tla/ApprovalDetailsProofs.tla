------------------------ MODULE ApprovalDetailsProofs ------------------------
(***************************************************************************)
(* Proofs about ApprovalDetails, for any number of approvals and requests  *)
(* in flight, any edits, any bound on the transactions and any places      *)
(* where requests fail; but for WritersHeard, where requests come one      *)
(* after the other and none dies, and for ReadsSettle, which is about      *)
(* times when nobody writes.                                               *)
(***************************************************************************)
EXTENDS ApprovalDetails, FiniteSetTheorems, SequenceTheorems, TLAPS

-----------------------------------------------------------------------------
(* The order in which findById reads. *)

LEMMA OrderIs ==
    /\ Len(ReadOrder) = 14
    /\ DOMAIN ReadOrder = 1..14
    /\ Sections = {"approval", "history", "contents", "trips", "tripDates", "staff",
                   "locations", "accommodation", "rides", "holidays", "clothing",
                   "budgets", "continuous", "reference"}
    /\ ReadOrder \in Seq(Sections)
<1>1. Len(ReadOrder) = 14 /\ DOMAIN ReadOrder = 1..14
  BY DEF ReadOrder
<1>2. Sections = {ReadOrder[i] : i \in 1..14}
  BY <1>1 DEF Sections
<1>3. 1..14 = {1, 2, 3, 4, 5, 6, 7, 8, 9, 10, 11, 12, 13, 14}
  OBVIOUS
<1>4. Sections = {"approval", "history", "contents", "trips", "tripDates", "staff",
                  "locations", "accommodation", "rides", "holidays", "clothing",
                  "budgets", "continuous", "reference"}
  BY <1>2, <1>3 DEF ReadOrder
<1>5. ReadOrder \in Seq(Sections)
  BY <1>4 DEF ReadOrder
<1> QED
  BY <1>1, <1>4, <1>5

(* Rows are looked up by a row that has been read, and staff are read before
   the clothing expenses and signatures. *)
Before(s, t) ==
    \A i \in 1..14 :
        /\ ReadOrder[i] = s => \E k \in (i+1)..14 : ReadOrder[k] = t
        /\ ReadOrder[i] = t => \A k \in i..14 : ReadOrder[k] # s

LEMMA ParentsBefore ==
    /\ \A s \in DOMAIN ParentOf : Before(ParentOf[s], s)
    /\ \A s \in {"clothing", "continuous"} : Before("staff", s)
    /\ DOMAIN ParentOf \subseteq Sections
    /\ \A s \in DOMAIN ParentOf : ParentOf[s] \in {"trips", "staff", "locations", "accommodation"}
<1>1. \A i \in 1..14 : \/ i = 1 \/ i = 2 \/ i = 3 \/ i = 4 \/ i = 5 \/ i = 6 \/ i = 7
                       \/ i = 8 \/ i = 9 \/ i = 10 \/ i = 11 \/ i = 12 \/ i = 13 \/ i = 14
  OBVIOUS
<1>2. DOMAIN ParentOf = {"tripDates", "locations", "accommodation", "rides", "holidays"}
  BY DEF ParentOf
<1>3. /\ ParentOf["tripDates"] = "trips" /\ ParentOf["locations"] = "staff"
      /\ ParentOf["accommodation"] = "locations" /\ ParentOf["rides"] = "accommodation"
      /\ ParentOf["holidays"] = "accommodation"
  BY DEF ParentOf
<1>4. Before("trips", "tripDates")
  BY <1>1 DEF Before, ReadOrder
<1>5. Before("staff", "locations")
  BY <1>1 DEF Before, ReadOrder
<1>6. Before("locations", "accommodation")
  BY <1>1 DEF Before, ReadOrder
<1>7. Before("accommodation", "rides") /\ Before("accommodation", "holidays")
  BY <1>1 DEF Before, ReadOrder
<1>8. Before("staff", "clothing") /\ Before("staff", "continuous")
  BY <1>1 DEF Before, ReadOrder
<1>9. DOMAIN ParentOf \subseteq Sections
  BY <1>2, OrderIs
<1> QED
  BY <1>2, <1>3, <1>4, <1>5, <1>6, <1>7, <1>8, <1>9

LEMMA OrderInjective == \A i, j \in 1..14 : i # j => ReadOrder[i] # ReadOrder[j]
<1>1. \A i \in 1..14 : \/ i = 1 \/ i = 2 \/ i = 3 \/ i = 4 \/ i = 5 \/ i = 6 \/ i = 7
                       \/ i = 8 \/ i = 9 \/ i = 10 \/ i = 11 \/ i = 12 \/ i = 13 \/ i = 14
  OBVIOUS
<1> QED
  BY <1>1 DEF ReadOrder

(* What is still to be read. *)
Rest(i) == SubSeq(ReadOrder, i, 14)

LEMMA RestIs ==
    /\ ReadOrder = Rest(1)
    /\ \A i \in 1..14 : /\ Rest(i) \in Seq(Sections)
                        /\ Head(Rest(i)) = ReadOrder[i]
                        /\ ReadOrder[i] \in Sections
                        /\ (ReadOrder[i] = "approval") <=> (i = 1)
                        /\ i = 14 => Tail(Rest(i)) = <<>>
                        /\ i # 14 => Tail(Rest(i)) = Rest(i + 1) /\ Tail(Rest(i)) # <<>>
<1> USE OrderIs
<1>1. ReadOrder = Rest(1)
  BY SubSeqFull DEF Rest
<1>2. ASSUME NEW i \in 1..14
      PROVE  Head(Rest(i)) = ReadOrder[i] /\ Tail(Rest(i)) = Rest(i + 1)
  BY HeadTailOfSubSeq DEF Rest
<1>3. ASSUME NEW i \in 1..14
      PROVE  Rest(i) \in Seq(Sections) /\ Len(Rest(i)) = 15 - i
  <2>1. \A j \in i..14 : ReadOrder[j] \in Sections
    <3> SUFFICES ASSUME NEW j \in i..14 PROVE ReadOrder[j] \in Sections
      OBVIOUS
    <3>1. j \in 1..14
      OBVIOUS
    <3> QED
      BY <3>1, ElementOfSeq
  <2> QED
    BY <2>1, SubSeqProperties DEF Rest
<1>4. Rest(15) = <<>>
  BY SubSeqEmpty DEF Rest
<1>5. \A i \in 1..14 : i # 14 => Rest(i + 1) # <<>>
  <2> SUFFICES ASSUME NEW i \in 1..13 PROVE Rest(i + 1) # <<>>
    OBVIOUS
  <2>1. i + 1 \in 1..14 /\ 15 - (i + 1) # 0
    OBVIOUS
  <2>2. Len(Rest(i + 1)) # 0
    BY <1>3, <2>1
  <2> QED
    BY <2>2
<1>6. \A i \in 1..14 : (ReadOrder[i] = "approval") <=> (i = 1)
  <2>1. \A i \in 1..14 : \/ i = 1 \/ i = 2 \/ i = 3 \/ i = 4 \/ i = 5 \/ i = 6 \/ i = 7
                         \/ i = 8 \/ i = 9 \/ i = 10 \/ i = 11 \/ i = 12 \/ i = 13 \/ i = 14
    OBVIOUS
  <2> QED
    BY <2>1 DEF ReadOrder
<1>7. \A i \in 1..14 : ReadOrder[i] \in Sections
  BY ElementOfSeq
<1>8. ASSUME NEW i \in 1..14
      PROVE  /\ i = 14 => Tail(Rest(i)) = <<>>
             /\ i # 14 => Tail(Rest(i)) = Rest(i + 1) /\ Tail(Rest(i)) # <<>>
  <2>1. Tail(Rest(i)) = Rest(i + 1)
    BY <1>2
  <2>2. i = 14 => i + 1 = 15
    OBVIOUS
  <2> QED
    BY <1>4, <1>5, <2>1, <2>2
<1> QED
  BY <1>1, <1>2, <1>3, <1>6, <1>7, <1>8

-----------------------------------------------------------------------------
(* What a detail, or the rows of an approval, are like. *)

(* Consistent, and: rows that are there have been written by somebody. *)
Ordered(d) ==
    /\ Consistent(d)
    /\ \A s \in Sections : d[s] = Empty \/ d[s].id > 0

(* Clothing expenses are those of travellers. *)
Worn(d) == d["clothing"] # Empty => d["staff"] # Empty

Sound(d) == Ordered(d) /\ Worn(d)

(* Who writes claims past ApprovalService asks for no traveller. *)
Stands(a, d) == Ordered(d) /\ (a \in Outside \/ Worn(d))

Stored(a) ==
    /\ Stands(a, rows[a])
    /\ \A s \in Sections : rows[a][s].id <= writes
    /\ cache[a] # Nil => Sound(cache[a])
    /\ Exists(a) \/ (rows[a] = Nothing /\ cache[a] = Nil)

(* A request in flight works on an approval that is there; one that reads has
   read in order, and no later submission than the one in the tables. *)
Reads(r) ==
    /\ Sound(r.detail)
    /\ r.pc # "idle" => r.id \in Approvals /\ Exists(r.id)
    /\ r.pc = "lookup" => r.detail = Nothing
    /\ r.pc = "reading" =>
           \E i \in 1..14 :
               /\ r.todo = Rest(i)
               /\ \A j \in i..14 : r.detail[ReadOrder[j]] = Empty
    /\ r.pc \in {"reading", "fill"} =>
           r.detail["staff"].id <= rows[r.id]["staff"].id

(* Requests that may still write have room to. *)
MayStillWrite(r) ==
    r.op \in Writers /\ r.pc \in {"lookup", "reading", "fill", "write"}

Pending == {p \in Requests : MayStillWrite(request[p])}

Room == writes + Cardinality(Pending) <= MaxWrites

Inv ==
    /\ TypeOK
    /\ \A a \in Approvals : Stored(a)
    /\ \A p \in Requests : Reads(request[p])
    /\ Room

LEMMA RowTypes ==
    /\ Empty \in Rows /\ Empty.id = 0 /\ Nothing \in Detail
    /\ \A s \in Sections : Nothing[s] = Empty
    /\ \A w \in Nat \ {0} : New(w) \in Rows /\ New(w) # Empty /\ New(w).id = w
BY DEF Empty, Rows, Nothing, Detail, New

LEMMA NothingSound == Sound(Nothing)
BY RowTypes, ParentsBefore, OrderIs DEF Sound, Ordered, Worn, Consistent

LEMMA IdleType == Idle \in Request
<1>1. <<>> \in Seq(Sections)
  OBVIOUS
<1> QED
  BY <1>1, RowTypes DEF Idle, Request, PCs

(* Rows touched stay the rows they are, and so do rows others are added to. *)
LEMMA TouchIs ==
    ASSUME NEW row \in Rows, NEW w \in Nat \ {0}
    PROVE  /\ Touch(row, w) \in Rows
           /\ Touch(row, w).id = row.id
           /\ (Touch(row, w) = Empty) <=> (row = Empty)
BY DEF Touch, Empty, Rows

LEMMA GrowIs ==
    ASSUME NEW row \in Rows, NEW w \in Nat \ {0}
    PROVE  /\ Grow(row, w) \in Rows /\ Grow(row, w) # Empty
           /\ \/ Grow(row, w).id = row.id /\ row # Empty
              \/ Grow(row, w).id = w
BY DEF Grow, New, Empty, Rows

-----------------------------------------------------------------------------
(* The room for transactions. *)

LEMMA PendingCounted ==
    ASSUME TypeOK
    PROVE  /\ IsFiniteSet(Pending)
           /\ Cardinality(Pending) \in Nat
           /\ MayWrite => writes + Cardinality(Pending) < MaxWrites
<1> DEFINE W == {q \in Requests : request[q].op \in Writers}
<1>1. IsFiniteSet(W) /\ Pending \subseteq W
  BY FS_Subset, DetailsAssumption DEF Pending, MayStillWrite
<1>2. IsFiniteSet(Pending) /\ Cardinality(Pending) <= Cardinality(W)
  BY <1>1, FS_Subset
<1>3. Cardinality(Pending) \in Nat /\ Cardinality(W) \in Nat
  BY <1>1, <1>2, FS_CardinalityType
<1>4. MayWrite => writes + Cardinality(W) < MaxWrites
  BY DEF MayWrite
<1> HIDE DEF W
<1>5. writes \in Nat /\ MaxWrites \in Nat
  BY DetailsAssumption DEF TypeOK
<1> QED
  BY <1>2, <1>3, <1>4, <1>5

LEMMA RoomKept ==
    ASSUME TypeOK, Room, UNCHANGED writes, NEW p \in Requests, NEW r,
           request' = [request EXCEPT ![p] = r],
           MayStillWrite(r) => p \in Pending \/ MayWrite
    PROVE  Room'
<1>1. request'[p] = r /\ \A q \in Requests \ {p} : request'[q] = request[q]
  BY DEF TypeOK
<1>2. /\ IsFiniteSet(Pending) /\ Cardinality(Pending) \in Nat
      /\ writes \in Nat /\ MaxWrites \in Nat
  BY PendingCounted, DetailsAssumption DEF TypeOK
<1>3. CASE Pending' \subseteq Pending
  <2>1. Cardinality(Pending') <= Cardinality(Pending) /\ Cardinality(Pending') \in Nat
    BY <1>2, <1>3, FS_Subset, FS_CardinalityType
  <2> QED
    BY <1>2, <2>1 DEF Room
<1>4. CASE ~ (Pending' \subseteq Pending)
  <2>1. Pending' = Pending \cup {p} /\ p \notin Pending /\ MayWrite
    BY <1>1, <1>4 DEF Pending
  <2>2. Cardinality(Pending') = Cardinality(Pending) + 1
    BY <1>2, <2>1, FS_AddElement
  <2>3. writes + Cardinality(Pending) < MaxWrites
    BY <2>1, PendingCounted
  <2> QED
    BY <1>2, <2>2, <2>3 DEF Room
<1> QED
  BY <1>3, <1>4

LEMMA RoomTaken ==
    ASSUME TypeOK, Room, writes' = writes + 1, NEW p \in Pending, NEW r,
           request' = [request EXCEPT ![p] = r], ~ MayStillWrite(r)
    PROVE  Room' /\ writes' \in 0..MaxWrites
<1>1. p \in Requests
  BY DEF Pending
<1>2. request'[p] = r /\ \A q \in Requests \ {p} : request'[q] = request[q]
  BY <1>1 DEF TypeOK
<1>3. Pending' = Pending \ {p}
  BY <1>1, <1>2 DEF Pending
<1>4. /\ IsFiniteSet(Pending) /\ Cardinality(Pending) \in Nat
      /\ writes \in Nat /\ MaxWrites \in Nat
  BY PendingCounted, DetailsAssumption DEF TypeOK
<1>5. /\ Cardinality(Pending') = Cardinality(Pending) - 1
      /\ Cardinality(Pending') \in Nat
  BY <1>3, <1>4, FS_RemoveElement, FS_CardinalityType
<1> QED
  BY <1>4, <1>5 DEF Room

LEMMA RoomUsed ==
    ASSUME TypeOK, MayWrite, writes' = writes + 1, UNCHANGED request
    PROVE  Room' /\ writes' \in 0..MaxWrites
<1>1. Pending' = Pending
  BY DEF Pending
<1> QED
  BY <1>1, PendingCounted, DetailsAssumption DEF TypeOK, Room

-----------------------------------------------------------------------------
(* A request moves; the tables stay. *)

LEMMA RequestMoves ==
    ASSUME Inv, UNCHANGED <<rows, reference, deleted, writes>>,
           NEW p \in Requests, NEW r \in Request,
           request' = [request EXCEPT ![p] = r],
           Reads(r), MayStillWrite(r) => p \in Pending \/ MayWrite,
           \A a \in Approvals :
               \/ cache'[a] = cache[a]
               \/ cache'[a] = Nil
               \/ cache'[a] \in Detail /\ Sound(cache'[a]) /\ Exists(a),
           cache' = [a \in Approvals |-> cache'[a]]
    PROVE  Inv'
<1>1. request'[p] = r /\ \A q \in Requests \ {p} : request'[q] = request[q]
  BY DEF Inv, TypeOK
<1>2. Room'
  BY RoomKept DEF Inv
<1>3. ASSUME NEW q \in Requests PROVE Reads(request[q])'
  <2>1. Reads(request'[q])
    BY <1>1 DEF Inv
  <2> QED
    BY <2>1 DEF Reads, Exists
<1>4. cache' \in [Approvals -> Detail \cup {Nil}]
  BY DEF Inv, TypeOK
<1>5. TypeOK'
  BY <1>4 DEF Inv, TypeOK
<1>6. \A a \in Approvals : Stored(a)'
  BY DEF Inv, Stored, Exists
<1> QED
  BY <1>2, <1>3, <1>5, <1>6 DEF Inv

LEMMA CacheStays ==
    ASSUME Inv, UNCHANGED cache
    PROVE  /\ \A a \in Approvals : cache'[a] = cache[a]
           /\ cache' = [a \in Approvals |-> cache'[a]]
BY DEF Inv, TypeOK

LEMMA IdleReads == Reads(Idle) /\ ~ MayStillWrite(Idle)
BY NothingSound DEF Reads, Idle, MayStillWrite, Writers, Copies

LEMMA ArriveInv ==
    ASSUME Inv, NEW p \in Requests, NEW op \in Ops,
           NEW a \in Approvals, NEW edit \in SUBSET Parts, Arrive(p, op, a, edit)
    PROVE  Inv'
<1> DEFINE r == [Idle EXCEPT !.pc = IF op = "decide" THEN "write" ELSE "lookup",
                             !.op = op, !.id = a, !.edit = edit]
<1>1. op \in Writers \cup {"read"}
  BY DetailsAssumption
<1>2. r \in Request
  BY <1>1, IdleType DEF Request, PCs
<1>3. /\ r.detail = Nothing /\ r.id = a /\ r.op = op
      /\ r.pc \in {"write", "lookup"}
  BY DEF Idle
<1>4. request' = [request EXCEPT ![p] = r]
  BY DEF Arrive, Become
<1> HIDE DEF r
<1>5. Reads(r)
  BY <1>3, NothingSound DEF Reads, Arrive
<1>6. MayStillWrite(r) => MayWrite
  BY <1>3 DEF MayStillWrite, Arrive, Writers, Copies
<1> QED
  BY <1>2, <1>4, <1>5, <1>6, CacheStays, RequestMoves DEF Arrive

(* What a request that has its detail becomes. *)
LEMMA AnsweredReads ==
    ASSUME Inv, NEW p \in Requests, request[p].pc \in {"lookup", "reading", "fill"},
           NEW r \in Request, r.op = request[p].op, r.id = request[p].id,
           Sound(r.detail)
    PROVE  /\ Answered(r) \in Request
           /\ Reads(Answered(r))
           /\ MayStillWrite(Answered(r)) => p \in Pending
<1>1. CASE r.op = "read"
  BY <1>1, IdleType, IdleReads DEF Answered
<1>2. CASE r.op # "read"
  <2> DEFINE x == [r EXCEPT !.pc = "write"]
  <2>1. x \in Request /\ x.pc = "write" /\ x.detail = r.detail /\ x.id = r.id
    BY DEF Request, PCs
  <2>2. Answered(r) = x
    BY <1>2 DEF Answered
  <2> HIDE DEF x
  <2>3. r.id \in Approvals /\ Exists(r.id)
    BY DEF Inv, Reads
  <2>4. Reads(x)
    BY <2>1, <2>3 DEF Reads
  <2>5. p \in Pending
    BY <1>2 DEF Pending, MayStillWrite, Request
  <2> QED
    BY <2>1, <2>2, <2>4, <2>5
<1> QED
  BY <1>1, <1>2

LEMMA HitInv ==
    ASSUME Inv, NEW p \in Requests, Hit(p)
    PROVE  Inv'
<1> DEFINE r == [request[p] EXCEPT !.detail = cache[request[p].id]]
<1>1. request[p].id \in Approvals /\ request[p] \in Request
  BY DEF Hit, Inv, TypeOK, Reads
<1>2. cache[request[p].id] \in Detail /\ Sound(cache[request[p].id])
  BY <1>1 DEF Hit, Inv, TypeOK, Stored
<1>3. /\ r \in Request /\ r.op = request[p].op /\ r.id = request[p].id
      /\ r.detail = cache[request[p].id]
  BY <1>1, <1>2 DEF Request
<1>4. request' = [request EXCEPT ![p] = Answered(r)]
  BY DEF Hit, Become
<1> HIDE DEF r
<1>5. /\ Answered(r) \in Request /\ Reads(Answered(r))
      /\ MayStillWrite(Answered(r)) => p \in Pending
  BY <1>2, <1>3, AnsweredReads DEF Hit
<1> QED
  BY <1>4, <1>5, CacheStays, RequestMoves DEF Hit

LEMMA MissInv ==
    ASSUME Inv, NEW p \in Requests, Miss(p)
    PROVE  Inv'
<1> DEFINE r == [request[p] EXCEPT !.pc = "reading", !.todo = ReadOrder]
<1>1. request[p] \in Request /\ Reads(request[p]) /\ request[p].pc = "lookup"
  BY DEF Miss, Inv, TypeOK
<1>2. /\ r \in Request /\ r.pc = "reading" /\ r.op = request[p].op
      /\ r.id = request[p].id /\ r.detail = Nothing /\ r.todo = ReadOrder
  BY <1>1, OrderIs DEF Request, PCs, Reads
<1>3. request' = [request EXCEPT ![p] = r]
  BY DEF Miss, Become
<1> HIDE DEF r
<1>4. /\ r.id \in Approvals /\ Exists(r.id) /\ rows[r.id]["staff"] \in Rows
      /\ "staff" \in Sections
  BY <1>1, <1>2, OrderIs DEF Reads, Inv, TypeOK, Detail
<1>5. \A j \in 1..14 : r.detail[ReadOrder[j]] = Empty
  BY <1>2, RowTypes, RestIs
<1>6. r.detail["staff"].id <= rows[r.id]["staff"].id
  BY <1>2, <1>4, RowTypes DEF Rows
<1>7. Reads(r)
  BY <1>2, <1>4, <1>5, <1>6, RestIs, NothingSound DEF Reads
<1>8. MayStillWrite(r) => p \in Pending
  BY <1>1, <1>2 DEF MayStillWrite, Pending
<1> QED
  BY <1>2, <1>3, <1>7, <1>8, CacheStays, RequestMoves DEF Miss

LEMMA FillInv ==
    ASSUME Inv, NEW p \in Requests, Fill(p)
    PROVE  Inv'
<1> DEFINE r == request[p]
<1>1. /\ r \in Request /\ Reads(r) /\ r.id \in Approvals
      /\ r.detail \in Detail /\ Sound(r.detail) /\ Exists(r.id)
  BY DEF Fill, Inv, TypeOK, Reads, Request
<1>2. request' = [request EXCEPT ![p] = Answered(r)]
  BY DEF Fill, Become
<1>3. /\ Answered(r) \in Request /\ Reads(Answered(r))
      /\ MayStillWrite(Answered(r)) => p \in Pending
  BY <1>1, AnsweredReads DEF Fill
<1>4. cache' = [cache EXCEPT ![r.id] = r.detail] /\ cache \in [Approvals -> Detail \cup {Nil}]
  BY DEF Fill, Inv, TypeOK
<1>5. /\ \A a \in Approvals : cache'[a] = cache[a] \/ (cache'[a] = r.detail /\ a = r.id)
      /\ cache' = [a \in Approvals |-> cache'[a]]
  BY <1>1, <1>4
<1> QED
  BY <1>1, <1>2, <1>3, <1>5, RequestMoves DEF Fill

(* A request that ends, whatever it leaves in the cache. *)
LEMMA EndInv ==
    ASSUME Inv, NEW p \in Requests,
           NotFound(p) \/ Abort(p) \/ Invalidate(p) \/ CacheCopy(p)
    PROVE  Inv'
<1>1. request' = [request EXCEPT ![p] = Idle]
  BY DEF NotFound, Abort, Invalidate, CacheCopy, Become
<1>2. /\ \A a \in Approvals : \/ cache'[a] = cache[a] \/ cache'[a] = Nil
                              \/ cache'[a] = Nothing /\ Exists(a)
      /\ cache' = [a \in Approvals |-> cache'[a]]
  BY DEF NotFound, Abort, Invalidate, CacheCopy, Inv, TypeOK, Reads
<1>3. UNCHANGED <<rows, reference, deleted, writes>>
  BY DEF NotFound, Abort, Invalidate, CacheCopy
<1> QED
  BY <1>1, <1>2, <1>3, IdleType, IdleReads, RowTypes, NothingSound, RequestMoves

LEMMA ExpireInv ==
    ASSUME Inv, NEW a \in Approvals, Expire(a)
    PROVE  Inv'
<1>1. Room' /\ TypeOK'
  BY DEF Expire, Inv, TypeOK, Room, Pending
<1>2. \A p \in Requests : Reads(request[p])'
  BY DEF Expire, Inv, Reads, Exists
<1>3. \A b \in Approvals : Stored(b)'
  BY DEF Expire, Inv, TypeOK, Stored, Exists
<1> QED
  BY <1>1, <1>2, <1>3 DEF Inv

-----------------------------------------------------------------------------
(* A query leaves a sound detail sound. *)

LEMMA LookType ==
    ASSUME Inv, NEW a \in Approvals, NEW s \in Sections, NEW d \in Detail,
           NEW ref \in Approvals \cup {Nil}
    PROVE  /\ Look(a, s, d, ref) \in Rows
           /\ Look(a, s, d, ref) = Empty \/ Look(a, s, d, ref).id > 0
           /\ s # "reference" =>
                  Look(a, s, d, ref) = Empty \/ Look(a, s, d, ref) = rows[a][s]
<1>1. \A b \in Approvals : \A t \in Sections :
          rows[b][t] \in Rows /\ (rows[b][t] = Empty \/ rows[b][t].id > 0)
  BY DEF Inv, TypeOK, Stored, Stands, Ordered, Detail
<1>2. "approval" \in Sections
  BY OrderIs
<1>3. s \in DOMAIN ParentOf => s # "clothing" /\ s # "reference"
  BY DEF ParentOf
<1>4. \/ Look(a, s, d, ref) = Empty
      \/ Look(a, s, d, ref) = rows[a][s]
      \/ /\ s = "reference" /\ ref \in Approvals
         /\ Look(a, s, d, ref) = rows[ref]["approval"]
  BY <1>3 DEF Look
<1> QED
  BY <1>1, <1>2, <1>4, RowTypes

LEMMA ReadSound ==
    ASSUME Inv, NEW p \in Requests, Read(p), NEW i \in 1..14,
           request[p].todo = Rest(i),
           \A j \in i..14 : request[p].detail[ReadOrder[j]] = Empty,
           NEW d, d = [request[p].detail EXCEPT ![ReadOrder[i]] =
                  Look(request[p].id, ReadOrder[i], request[p].detail, request[p].ref)]
    PROVE  /\ d \in Detail
           /\ Sound(d)
           /\ \A j \in (i+1)..14 : d[ReadOrder[j]] = Empty
           /\ d["staff"].id <= rows[request[p].id]["staff"].id
<1> DEFINE a == request[p].id
           s == ReadOrder[i]
           old == request[p].detail
           v == Look(a, s, old, request[p].ref)
<1>1. /\ a \in Approvals /\ old \in Detail /\ s \in Sections /\ Sound(old)
      /\ request[p].ref \in Approvals \cup {Nil}
      /\ old["staff"].id <= rows[a]["staff"].id
  BY RestIs DEF Read, Inv, TypeOK, Reads, Request
<1>2. v \in Rows /\ (v = Empty \/ v.id > 0) /\ (s # "reference" => v = Empty \/ v = rows[a][s])
  BY <1>1, LookType
<1>3. d \in Detail /\ d[s] = v /\ \A t \in Sections \ {s} : d[t] = old[t]
  BY <1>1, <1>2 DEF Detail
<1>4. /\ \A t \in {"staff", "clothing", "continuous", "reference"} : t \in Sections
      /\ \A t \in DOMAIN ParentOf : t \in Sections /\ ParentOf[t] \in Sections
  BY OrderIs, ParentsBefore
<1>5. /\ rows[a] \in Detail /\ Ordered(rows[a])
      /\ \A t \in Sections : rows[a][t].id \in Nat /\ old[t].id \in Nat
  BY <1>1 DEF Inv, TypeOK, Stored, Stands, Detail, Rows
<1>6. s \in DOMAIN ParentOf => v = Empty \/ v.id = old[ParentOf[s]].id
  <2>1. s \in DOMAIN ParentOf => s # "clothing" /\ s # "reference"
    BY DEF ParentOf
  <2> HIDE DEF s, old, a
  <2> QED
    BY <2>1 DEF Look
<1>7. s = "clothing" => v = Empty \/ old["staff"] # Empty
  BY DEF Look, ParentOf
<1>8. \A t : Before(s, t) => old[t] = Empty
  <2> SUFFICES ASSUME NEW t, Before(s, t) PROVE old[t] = Empty
    OBVIOUS
  <2>1. PICK k \in (i+1)..14 : ReadOrder[k] = t
    BY DEF Before
  <2>2. k \in i..14
    OBVIOUS
  <2> QED
    BY <2>1, <2>2
<1>9. \A j \in (i+1)..14 : d[ReadOrder[j]] = Empty
  <2> SUFFICES ASSUME NEW j \in (i+1)..14 PROVE d[ReadOrder[j]] = Empty
    OBVIOUS
  <2>1. ReadOrder[j] # s
    BY OrderInjective
  <2>2. j \in i..14 /\ j \in 1..14
    OBVIOUS
  <2> QED
    BY <1>3, <2>1, <2>2, RestIs
<1> HIDE DEF s, v, a, old
<1>10. \A t \in DOMAIN ParentOf : d[t] = Empty \/ d[t].id = d[ParentOf[t]].id
  <2> SUFFICES ASSUME NEW t \in DOMAIN ParentOf
               PROVE  d[t] = Empty \/ d[t].id = d[ParentOf[t]].id
    OBVIOUS
  <2>1. ParentOf[t] # t
    BY DEF ParentOf
  <2>2. CASE s = t
    BY <1>3, <1>4, <1>6, <2>1, <2>2
  <2>3. CASE s = ParentOf[t]
    BY <1>3, <1>4, <1>8, <2>1, <2>3, ParentsBefore
  <2>4. CASE s # t /\ s # ParentOf[t]
    BY <1>1, <1>3, <1>4, <2>4 DEF Sound, Ordered, Worn, Consistent
  <2> QED
    BY <2>2, <2>3, <2>4
<1>11. d["staff"].id <= rows[a]["staff"].id
  <2>1. CASE s = "staff"
    BY <1>2, <1>3, <1>4, <1>5, <2>1, RowTypes
  <2>2. CASE s # "staff"
    BY <1>1, <1>3, <1>4, <2>2
  <2> QED
    BY <2>1, <2>2
<1>12. \A t \in {"clothing", "continuous"} : d[t] = Empty \/ d[t].id >= d["staff"].id
  <2> SUFFICES ASSUME NEW t \in {"clothing", "continuous"}
               PROVE  d[t] = Empty \/ d[t].id >= d["staff"].id
    OBVIOUS
  <2>1. CASE s = t
    <3>1. v = Empty \/ v.id >= rows[a]["staff"].id
      BY <1>2, <1>5, <2>1 DEF Sound, Ordered, Worn, Consistent
    <3>2. d["staff"] = old["staff"]
      BY <1>3, <1>4, <2>1
    <3> QED
      BY <1>1, <1>2, <1>3, <1>4, <1>5, <2>1, <3>1, <3>2 DEF Rows
  <2>2. CASE s = "staff"
    BY <1>3, <1>4, <1>8, <2>2, ParentsBefore
  <2>3. CASE s # t /\ s # "staff"
    BY <1>1, <1>3, <1>4, <2>3 DEF Sound, Ordered, Worn, Consistent
  <2> QED
    BY <2>1, <2>2, <2>3
<1>13. d["clothing"] # Empty => d["staff"] # Empty
  <2>1. CASE s = "clothing"
    BY <1>3, <1>4, <1>7, <2>1
  <2>2. CASE s = "staff"
    BY <1>3, <1>4, <1>8, <2>2, ParentsBefore
  <2>3. CASE s # "clothing" /\ s # "staff"
    BY <1>1, <1>3, <1>4, <2>3 DEF Sound, Worn
  <2> QED
    BY <2>1, <2>2, <2>3
<1>14. \A t \in Sections : d[t] = Empty \/ d[t].id > 0
  BY <1>1, <1>2, <1>3 DEF Sound, Ordered
<1>15. Sound(d)
  BY <1>10, <1>12, <1>13, <1>14 DEF Sound, Ordered, Worn, Consistent
<1> QED
  BY <1>3, <1>9, <1>11, <1>15 DEF a

LEMMA RestTail ==
    ASSUME NEW i \in 1..14
    PROVE  /\ Tail(Rest(i)) \in Seq(Sections)
           /\ Tail(Rest(i)) # <<>> => i + 1 \in 1..14 /\ Tail(Rest(i)) = Rest(i + 1)
<1> DEFINE t == Tail(Rest(i))
<1>1. /\ i = 14 => t = <<>>
      /\ i # 14 => t = Rest(i + 1)
  BY RestIs, Zenon
<1> HIDE DEF t
<1>2. i # 14 => i + 1 \in 1..14
  OBVIOUS
<1>3. i # 14 => Rest(i + 1) \in Seq(Sections)
  BY <1>2, RestIs, Zenon
<1>4. <<>> \in Seq(Sections)
  OBVIOUS
<1>5. /\ t \in Seq(Sections)
      /\ t # <<>> => i + 1 \in 1..14 /\ t = Rest(i + 1)
  BY <1>1, <1>2, <1>3, <1>4, Zenon
<1> QED
  BY <1>5 DEF t

LEMMA ReadInv ==
    ASSUME Inv, NEW p \in Requests, Read(p)
    PROVE  Inv'
<1>1. PICK i \in 1..14 :
          /\ request[p].todo = Rest(i)
          /\ \A j \in i..14 : request[p].detail[ReadOrder[j]] = Empty
  BY DEF Read, Inv, Reads
<1> DEFINE s == ReadOrder[i]
           d == [request[p].detail EXCEPT ![s] =
                    Look(request[p].id, s, request[p].detail, request[p].ref)]
           r == [request[p] EXCEPT
                    !.detail[s] = Look(request[p].id, s, request[p].detail, request[p].ref),
                    !.ref = IF s = "approval" THEN reference[request[p].id] ELSE @,
                    !.todo = Tail(Rest(i)),
                    !.pc = IF Tail(Rest(i)) = <<>> THEN "fill" ELSE "reading"]
<1>2. request' = [request EXCEPT ![p] = r]
  <2>1. Head(request[p].todo) = s /\ request[p].todo = Rest(i)
    BY <1>1, RestIs
  <2> HIDE DEF s
  <2> QED
    BY <2>1 DEF Read, Become
<1>3. /\ d \in Detail /\ Sound(d)
      /\ \A j \in (i+1)..14 : d[ReadOrder[j]] = Empty
      /\ d["staff"].id <= rows[request[p].id]["staff"].id
  BY <1>1, ReadSound
<1>4. /\ request[p] \in Request /\ request[p].id \in Approvals /\ Exists(request[p].id)
      /\ request[p].pc = "reading"
      /\ reference[request[p].id] \in Approvals \cup {Nil}
  BY DEF Read, Inv, TypeOK, Reads
<1>5. /\ Tail(Rest(i)) \in Seq(Sections)
      /\ Tail(Rest(i)) # <<>> => i + 1 \in 1..14 /\ Tail(Rest(i)) = Rest(i + 1)
  BY RestTail
<1>6. /\ r.detail = d /\ r.id = request[p].id /\ r.op = request[p].op
      /\ r.todo = Tail(Rest(i))
      /\ r.pc \in {"fill", "reading"} /\ (r.pc = "reading" => Tail(Rest(i)) # <<>>)
  BY <1>4 DEF Request
<1>7. r \in Request
  BY <1>3, <1>4, <1>5 DEF Request, PCs
<1> HIDE DEF r, d
<1>8. Reads(r)
  BY <1>3, <1>4, <1>5, <1>6 DEF Reads
<1>9. MayStillWrite(r) => p \in Pending
  BY <1>4, <1>6 DEF MayStillWrite, Pending
<1> QED
  BY <1>2, <1>7, <1>8, <1>9, CacheStays, RequestMoves DEF Read

-----------------------------------------------------------------------------
(* A transaction writes the rows of one approval. *)

Wrote(a) ==
    /\ writes' = writes + 1
    /\ rows' \in [Approvals -> Detail]
    /\ \A b \in Approvals \ {a} : rows'[b] = rows[b]
    /\ Stands(a, rows'[a])
    /\ \A s \in Sections : rows'[a][s].id <= writes'
    /\ rows'[a]["approval"] # Empty
    /\ Exists(a) => rows[a]["staff"].id <= rows'[a]["staff"].id

LEMMA RowFacts ==
    ASSUME Inv, NEW a \in Approvals, NEW s \in Sections
    PROVE  /\ rows[a][s] \in Rows
           /\ rows[a][s].id \in Nat
           /\ rows[a][s].id <= writes
           /\ writes \in Nat
           /\ rows[a][s] = Empty \/ rows[a][s].id > 0
BY DetailsAssumption DEF Inv, TypeOK, Stored, Stands, Ordered, Detail, Rows

LEMMA WroteStored ==
    ASSUME Inv, NEW a \in Approvals, Wrote(a), UNCHANGED cache, NEW b \in Approvals
    PROVE  Stored(b)'
<1>1. CASE b = a
  BY <1>1 DEF Wrote, Inv, Stored, Exists
<1>2. CASE b # a
  <2>1. rows'[b] = rows[b] /\ writes' = writes + 1 /\ cache'[b] = cache[b] /\ Stored(b)
    BY <1>2 DEF Wrote, Inv
  <2>2. \A s \in Sections : rows[b][s].id <= writes + 1
    BY RowFacts
  <2> QED
    BY <2>1, <2>2 DEF Stored, Exists
<1> QED
  BY <1>1, <1>2

LEMMA WroteReads ==
    ASSUME Inv, NEW a \in Approvals, Wrote(a),
           NEW q \in Requests, request'[q] = request[q]
    PROVE  Reads(request[q])'
<1> DEFINE r == request[q]
<1>1. Reads(r) /\ r \in Request
  BY DEF Inv, TypeOK
<1>2. "staff" \in Sections
  BY OrderIs
<1>3. r.pc # "idle" => r.id \in Approvals /\ rows'[r.id]["approval"] # Empty
  BY <1>1 DEF Wrote, Reads, Exists
<1>4. r.pc \in {"reading", "fill"} => r.detail["staff"].id <= rows'[r.id]["staff"].id
  <2>1. SUFFICES ASSUME r.pc \in {"reading", "fill"}
                 PROVE  r.detail["staff"].id <= rows'[r.id]["staff"].id
    OBVIOUS
  <2>2. r.id \in Approvals /\ Exists(r.id) /\ r.detail["staff"].id <= rows[r.id]["staff"].id
    BY <1>1, <2>1 DEF Reads
  <2>3. rows[r.id]["staff"].id <= rows'[r.id]["staff"].id
    BY <1>2, <2>2, RowFacts DEF Wrote
  <2>4. /\ r.detail["staff"].id \in Nat /\ rows[r.id]["staff"].id \in Nat
        /\ rows'[r.id]["staff"].id \in Nat
    BY <1>1, <1>2, <2>2 DEF Wrote, Inv, TypeOK, Request, Detail, Rows
  <2> QED
    BY <2>2, <2>3, <2>4
<1> QED
  BY <1>1, <1>3, <1>4 DEF Reads, Exists

LEMMA WriteMoves ==
    ASSUME Inv, NEW p \in Requests, NEW op \in Writers, Writes(p, op),
           NEW a \in Approvals, Wrote(a), UNCHANGED cache,
           NEW r \in Request, request' = [request EXCEPT ![p] = r],
           r.pc \in {"invalidate", "cacheCopy"}, r.detail = request[p].detail,
           r.id = a,
           reference' \in [Approvals -> Approvals \cup {Nil}],
           deleted' \subseteq Approvals
    PROVE  Inv'
<1>1. p \in Pending /\ ~ MayStillWrite(r)
  BY DEF Writes, Pending, MayStillWrite
<1>2. Room' /\ writes' \in 0..MaxWrites
  BY <1>1, RoomTaken DEF Inv, Wrote
<1>3. request'[p] = r /\ \A q \in Requests \ {p} : request'[q] = request[q]
  BY DEF Inv, TypeOK
<1>4. \A b \in Approvals : Stored(b)'
  BY WroteStored
<1>5. ASSUME NEW q \in Requests PROVE Reads(request[q])'
  <2>1. CASE q = p
    <3>1. Sound(r.detail) /\ rows'[a]["approval"] # Empty
      BY DEF Inv, Reads, Wrote
    <3> QED
      BY <1>3, <2>1, <3>1 DEF Reads, Exists
  <2>2. CASE q # p
    BY <1>3, <2>2, WroteReads
  <2> QED
    BY <2>1, <2>2
<1>6. TypeOK'
  BY <1>2 DEF Inv, TypeOK, Wrote
<1> QED
  BY <1>2, <1>4, <1>5, <1>6 DEF Inv

(* Rows changed where they are, and the first of those that are added beside
   others: nothing looks rows up by these. *)
LEMMA Refreshed ==
    ASSUME Inv, NEW a \in Approvals, writes' = writes + 1,
           rows' \in [Approvals -> Detail],
           \A b \in Approvals \ {a} : rows'[b] = rows[b],
           \A s \in Sections :
               \/ /\ rows'[a][s].id = rows[a][s].id
                  /\ (rows'[a][s] = Empty) <=> (rows[a][s] = Empty)
               \/ /\ s \in {"approval", "history", "continuous"}
                  /\ rows'[a][s] # Empty
                  /\ rows'[a][s].id = writes',
           rows'[a]["approval"] # Empty
    PROVE  Wrote(a)
<1> DEFINE new == rows'[a]
           old == rows[a]
<1>1. Stands(a, old)
  BY DEF Inv, Stored
<1>2. /\ "staff" \in Sections /\ "clothing" \in Sections /\ "continuous" \in Sections
      /\ \A t \in DOMAIN ParentOf : t \in Sections /\ ParentOf[t] \in Sections
  BY OrderIs, ParentsBefore
<1>3. \A t \in DOMAIN ParentOf :
          /\ t \notin {"approval", "history", "continuous"}
          /\ ParentOf[t] \notin {"approval", "history", "continuous"}
  BY DEF ParentOf
<1>4. \A s \in Sections : old[s].id \in Nat /\ old[s].id <= writes /\ writes \in Nat
  BY RowFacts
<1>5. \A s \in Sections \ {"approval", "history", "continuous"} :
          new[s].id = old[s].id /\ ((new[s] = Empty) <=> (old[s] = Empty))
  OBVIOUS
<1>6. \A s \in Sections : \/ new[s].id = old[s].id /\ ((new[s] = Empty) <=> (old[s] = Empty))
                          \/ new[s].id = writes + 1
  OBVIOUS
<1> HIDE DEF new, old
<1>7. \A t \in DOMAIN ParentOf : new[t] = Empty \/ new[t].id = new[ParentOf[t]].id
  BY <1>1, <1>2, <1>3, <1>5 DEF Stands, Ordered, Consistent
<1>8. \A t \in {"clothing", "continuous"} : new[t] = Empty \/ new[t].id >= new["staff"].id
  BY <1>1, <1>2, <1>4, <1>5, <1>6 DEF Stands, Ordered, Consistent
<1>9. \A s \in Sections : (new[s] = Empty \/ new[s].id > 0) /\ new[s].id <= writes + 1
  BY <1>1, <1>4, <1>6 DEF Stands, Ordered
<1>10. Stands(a, new)
  BY <1>1, <1>2, <1>5, <1>7, <1>8, <1>9 DEF Stands, Ordered, Worn, Consistent
<1>11. old["staff"].id <= new["staff"].id
  BY <1>2, <1>4, <1>5
<1> QED
  BY <1>9, <1>10, <1>11 DEF Wrote, new, old

(* A transaction that refreshes the approval of its request. *)
LEMMA RefreshMoves ==
    ASSUME Inv, NEW p \in Requests, NEW op \in Writers, Writes(p, op), Invalidating(p),
           Wrote(request[p].id), UNCHANGED reference, deleted' \subseteq Approvals
    PROVE  Inv'
<1> DEFINE r == [request[p] EXCEPT !.pc = "invalidate"]
<1>1. request[p] \in Request /\ request[p].id \in Approvals
  BY DEF Writes, Inv, TypeOK, Reads
<1>2. /\ r \in Request /\ r.pc = "invalidate" /\ r.id = request[p].id
      /\ r.detail = request[p].detail
  BY <1>1 DEF Request, PCs
<1>3. request' = [request EXCEPT ![p] = r]
  BY DEF Invalidating, Become
<1> HIDE DEF r
<1> QED
  BY <1>1, <1>2, <1>3, WriteMoves DEF Writes, Inv, TypeOK

(* What a request that writes can count on. *)
LEMMA WritesFacts ==
    ASSUME Inv, NEW p \in Requests, NEW op \in Writers, Writes(p, op)
    PROVE  /\ request[p].id \in Approvals
           /\ rows[request[p].id]["approval"] # Empty
           /\ rows[request[p].id] \in Detail
           /\ rows \in [Approvals -> Detail]
           /\ writes' = writes + 1 /\ writes' \in Nat \ {0}
           /\ Detail = [Sections -> Rows]
           /\ \A s \in {"approval", "history", "staff", "clothing", "continuous"} :
                  s \in Sections /\ rows[request[p].id][s] \in Rows
BY OrderIs, DetailsAssumption DEF Writes, Inv, TypeOK, Reads, Exists, Detail

LEMMA RefreshedRow ==
    ASSUME Inv, NEW a \in Approvals, writes' = writes + 1,
           NEW new \in Detail, rows' = [rows EXCEPT ![a] = new],
           \A s \in Sections :
               \/ new[s] = rows[a][s]
               \/ /\ new[s].id = rows[a][s].id
                  /\ (new[s] = Empty) <=> (rows[a][s] = Empty)
               \/ /\ s \in {"approval", "history", "continuous"}
                  /\ new[s] # Empty
                  /\ new[s].id = writes',
           new["approval"] # Empty
    PROVE  Wrote(a)
<1>1. rows'[a] = new /\ \A b \in Approvals \ {a} : rows'[b] = rows[b]
  BY DEF Inv, TypeOK
<1>2. rows' \in [Approvals -> Detail]
  BY DEF Inv, TypeOK
<1> QED
  BY <1>1, <1>2, Refreshed

LEMMA CancelInv ==
    ASSUME Inv, NEW p \in Requests, Cancel(p)
    PROVE  Inv'
<1> DEFINE a == request[p].id
<1>1. Writes(p, "cancel") /\ "cancel" \in Writers
  BY DEF Cancel, Writers
<1>2. PICK row : row = Touch(rows[a]["staff"], writes')
  OBVIOUS
<1>3. /\ row \in Rows /\ row.id = rows[a]["staff"].id
      /\ ((row = Empty) <=> (rows[a]["staff"] = Empty))
  BY <1>1, <1>2, WritesFacts, TouchIs
<1> DEFINE new == [rows[a] EXCEPT !["staff"] = row]
<1>4. rows' = [rows EXCEPT ![a] = new]
  BY <1>2 DEF Cancel
<1>5. /\ new \in Detail /\ new["staff"] = row
      /\ \A s \in Sections \ {"staff"} : new[s] = rows[a][s]
  BY <1>1, <1>3, WritesFacts
<1> HIDE DEF new
<1>6. new["approval"] # Empty
  BY <1>1, <1>3, <1>5, WritesFacts
<1>7. Wrote(a)
  BY <1>1, <1>3, <1>4, <1>5, <1>6, WritesFacts, RefreshedRow
<1> QED
  BY <1>1, <1>7, WritesFacts, RefreshMoves DEF Cancel, Inv, TypeOK

LEMMA UpdateDatesInv ==
    ASSUME Inv, NEW p \in Requests, UpdateDates(p)
    PROVE  Inv'
<1> DEFINE a == request[p].id
<1>1. Writes(p, "dates") /\ "dates" \in Writers
  BY DEF UpdateDates, Writers
<1>2. PICK row : row = Touch(rows[a]["clothing"], writes')
  OBVIOUS
<1>3. /\ row \in Rows /\ row.id = rows[a]["clothing"].id
      /\ ((row = Empty) <=> (rows[a]["clothing"] = Empty))
  BY <1>1, <1>2, WritesFacts, TouchIs
<1> DEFINE new == [rows[a] EXCEPT !["clothing"] = row]
<1>4. rows' = [rows EXCEPT ![a] = new]
  BY <1>2 DEF UpdateDates
<1>5. /\ new \in Detail /\ new["clothing"] = row
      /\ \A s \in Sections \ {"clothing"} : new[s] = rows[a][s]
  BY <1>1, <1>3, WritesFacts
<1> HIDE DEF new
<1>6. new["approval"] # Empty
  BY <1>1, <1>3, <1>5, WritesFacts
<1>7. Wrote(a)
  BY <1>1, <1>3, <1>4, <1>5, <1>6, WritesFacts, RefreshedRow
<1> QED
  BY <1>1, <1>7, WritesFacts, RefreshMoves DEF UpdateDates, Inv, TypeOK

LEMMA SoftDeleteInv ==
    ASSUME Inv, NEW p \in Requests, SoftDelete(p)
    PROVE  Inv'
<1> DEFINE a == request[p].id
<1>1. Writes(p, "remove") /\ "remove" \in Writers
  BY DEF SoftDelete, Writers
<1>2. PICK row : row = Touch(rows[a]["approval"], writes')
  OBVIOUS
<1>3. /\ row \in Rows /\ row.id = rows[a]["approval"].id
      /\ ((row = Empty) <=> (rows[a]["approval"] = Empty))
  BY <1>1, <1>2, WritesFacts, TouchIs
<1> DEFINE new == [rows[a] EXCEPT !["approval"] = row]
<1>4. rows' = [rows EXCEPT ![a] = new]
  BY <1>2 DEF SoftDelete
<1>5. /\ new \in Detail /\ new["approval"] = row
      /\ \A s \in Sections \ {"approval"} : new[s] = rows[a][s]
  BY <1>1, <1>3, WritesFacts
<1> HIDE DEF new
<1>6. new["approval"] # Empty
  BY <1>1, <1>3, <1>5, WritesFacts
<1>7. Wrote(a)
  BY <1>1, <1>3, <1>4, <1>5, <1>6, WritesFacts, RefreshedRow
<1> QED
  BY <1>1, <1>7, WritesFacts, RefreshMoves DEF SoftDelete, Inv, TypeOK

LEMMA UpdateStatusInv ==
    ASSUME Inv, NEW p \in Requests, UpdateStatus(p)
    PROVE  Inv'
<1> DEFINE a == request[p].id
<1>1. Writes(p, "status") /\ "status" \in Writers
  BY DEF UpdateStatus, Writers
<1>2. PICK row, history : /\ row = Touch(rows[a]["approval"], writes')
                          /\ history = Grow(rows[a]["history"], writes')
  OBVIOUS
<1>3. /\ row \in Rows /\ row.id = rows[a]["approval"].id /\ row # Empty
      /\ rows[a]["approval"] # Empty
      /\ history \in Rows /\ history # Empty
      /\ \/ history.id = rows[a]["history"].id /\ rows[a]["history"] # Empty
         \/ history.id = writes'
  BY <1>1, <1>2, WritesFacts, GrowIs, TouchIs
<1> DEFINE new == [rows[a] EXCEPT !["approval"] = row, !["history"] = history]
<1>4. rows' = [rows EXCEPT ![a] = new]
  BY <1>1, <1>2, WritesFacts DEF UpdateStatus
<1>5. /\ new \in Detail /\ new["approval"] = row /\ new["history"] = history
      /\ \A s \in Sections \ {"approval", "history"} : new[s] = rows[a][s]
  BY <1>1, <1>3, WritesFacts
<1> HIDE DEF new
<1>6. \A s \in Sections :
          \/ new[s] = rows[a][s]
          \/ new[s].id = rows[a][s].id /\ ((new[s] = Empty) <=> (rows[a][s] = Empty))
          \/ /\ s \in {"approval", "history", "continuous"}
             /\ new[s] # Empty /\ new[s].id = writes'
  BY <1>3, <1>5
<1>7. Wrote(a)
  <2>1. /\ a \in Approvals /\ writes' = writes + 1 /\ new \in Detail
        /\ rows' = [rows EXCEPT ![a] = new] /\ new["approval"] # Empty
    BY <1>1, <1>3, <1>4, <1>5, WritesFacts
  <2> QED
    BY <1>6, <2>1, RefreshedRow
<1> QED
  BY <1>1, <1>7, WritesFacts, RefreshMoves DEF UpdateStatus, Inv, TypeOK

LEMMA DecideInv ==
    ASSUME Inv, NEW p \in Requests, NEW verdict \in BOOLEAN, Decide(p, verdict)
    PROVE  Inv'
<1> DEFINE a == request[p].id
<1>1. Writes(p, "decide") /\ "decide" \in Writers
  BY DEF Decide, Writers
<1>2. PICK row, chain, history :
          /\ row = Touch(rows[a]["approval"], writes')
          /\ chain = Grow(rows[a]["continuous"], writes')
          /\ history = IF verdict THEN Grow(rows[a]["history"], writes')
                       ELSE rows[a]["history"]
  OBVIOUS
<1>3. /\ row \in Rows /\ row.id = rows[a]["approval"].id /\ row # Empty
      /\ rows[a]["approval"] # Empty
      /\ chain \in Rows /\ chain # Empty
      /\ \/ chain.id = rows[a]["continuous"].id /\ rows[a]["continuous"] # Empty
         \/ chain.id = writes'
  BY <1>1, <1>2, WritesFacts, GrowIs, TouchIs
<1>4. /\ history \in Rows
      /\ \/ history = rows[a]["history"]
         \/ history.id = rows[a]["history"].id /\ rows[a]["history"] # Empty /\ history # Empty
         \/ history.id = writes' /\ history # Empty
  BY <1>1, <1>2, WritesFacts, GrowIs
<1> DEFINE new == [rows[a] EXCEPT !["approval"] = row, !["continuous"] = chain,
                                  !["history"] = history]
<1>5. rows' = [rows EXCEPT ![a] = new]
  <2>1. CASE verdict
    BY <1>1, <1>2, <2>1, WritesFacts DEF Decide
  <2>2. CASE ~ verdict
    BY <1>1, <1>2, <2>2, WritesFacts DEF Decide
  <2> QED
    BY <2>1, <2>2
<1>6. /\ new \in Detail /\ new["approval"] = row /\ new["continuous"] = chain
      /\ new["history"] = history
      /\ \A s \in Sections \ {"approval", "continuous", "history"} : new[s] = rows[a][s]
  BY <1>1, <1>3, <1>4, WritesFacts
<1> HIDE DEF new
<1>7. \A s \in Sections :
          \/ new[s] = rows[a][s]
          \/ new[s].id = rows[a][s].id /\ ((new[s] = Empty) <=> (rows[a][s] = Empty))
          \/ /\ s \in {"approval", "history", "continuous"}
             /\ new[s] # Empty /\ new[s].id = writes'
  BY <1>3, <1>4, <1>6
<1>8. Wrote(a)
  <2>1. /\ a \in Approvals /\ writes' = writes + 1 /\ new \in Detail
        /\ rows' = [rows EXCEPT ![a] = new] /\ new["approval"] # Empty
    BY <1>1, <1>3, <1>5, <1>6, WritesFacts
  <2> QED
    BY <1>7, <2>1, RefreshedRow
<1> QED
  BY <1>1, <1>8, WritesFacts, RefreshMoves DEF Decide, Inv, TypeOK

(* Transactions of no request. *)
LEMMA OutsideMoves ==
    ASSUME Inv, NEW a \in Approvals, MayWrite, Wrote(a), UNCHANGED <<deleted, cache, request>>,
           reference' \in [Approvals -> Approvals \cup {Nil}]
    PROVE  Inv'
<1>1. Room' /\ writes' \in 0..MaxWrites
  BY RoomUsed DEF Inv, Wrote
<1>2. TypeOK'
  BY <1>1 DEF Inv, TypeOK, Wrote
<1>3. \A q \in Requests : Reads(request[q])'
  BY WroteReads
<1>4. \A b \in Approvals : Stored(b)'
  BY WroteStored
<1> QED
  BY <1>1, <1>2, <1>3, <1>4 DEF Inv

LEMMA CreateInv ==
    ASSUME Inv, NEW a \in Approvals, NEW ref \in Approvals \cup {Nil}, Create(a, ref)
    PROVE  Inv'
<1>1. /\ writes' = writes + 1 /\ writes' \in Nat \ {0} /\ rows[a] \in Detail
      /\ "approval" \in Sections /\ "history" \in Sections
  BY OrderIs, DetailsAssumption DEF Create, Inv, TypeOK
<1>2. New(writes') \in Rows /\ New(writes') # Empty /\ New(writes').id = writes'
  BY <1>1, RowTypes
<1> DEFINE new == [rows[a] EXCEPT !["approval"] = New(writes'), !["history"] = New(writes')]
<1>3. rows' = [rows EXCEPT ![a] = new]
  BY <1>1 DEF Create, Inv, TypeOK, Detail
<1>4. /\ new \in Detail /\ new["approval"] # Empty
      /\ \A s \in Sections : \/ new[s] = rows[a][s]
                             \/ /\ s \in {"approval", "history", "continuous"}
                                /\ new[s] # Empty /\ new[s].id = writes'
  BY <1>1, <1>2 DEF Detail
<1> HIDE DEF new
<1>5. Wrote(a)
  BY <1>1, <1>3, <1>4, RefreshedRow
<1>6. reference' \in [Approvals -> Approvals \cup {Nil}]
  BY DEF Create, Inv, TypeOK
<1> QED
  BY <1>5, <1>6, OutsideMoves DEF Create

(* Claims written past ApprovalService are those that were there, or newer. *)
ClaimsWritten(a, claims) ==
    /\ claims \in Rows
    /\ \/ claims = Empty
       \/ claims.id = rows[a]["clothing"].id /\ rows[a]["clothing"] # Empty
       \/ claims.id = writes + 1

LEMMA OutsideWrites ==
    ASSUME Inv, NEW a \in Approvals,
           \/ CopyReportDate(a) \/ EnterClaim(a)
           \/ \E all \in BOOLEAN : CancelClaims(a, all)
    PROVE  \E claims : ClaimsWritten(a, claims) /\ WriteClaims(a, claims)
<1>1. writes + 1 \in Nat \ {0} /\ rows[a]["clothing"] \in Rows
  BY OrderIs, DetailsAssumption DEF Inv, TypeOK, Detail
<1>2. PICK w \in Nat \ {0} : w = writes + 1
  BY <1>1
<1>3. PICK old \in Rows : old = rows[a]["clothing"]
  BY <1>1
<1>4. ASSUME NEW claims, WriteClaims(a, claims),
             \/ claims = Empty
             \/ claims = Touch(old, w) /\ old # Empty
             \/ claims = Grow(old, w)
      PROVE  ClaimsWritten(a, claims)
  BY <1>2, <1>3, <1>4, TouchIs, GrowIs, RowTypes DEF ClaimsWritten
<1>5. \E claims : /\ WriteClaims(a, claims)
                  /\ \/ claims = Empty
                     \/ claims = Touch(old, w) /\ old # Empty
                     \/ claims = Grow(old, w)
  <2>1. CASE CopyReportDate(a)
    BY <1>2, <1>3, <2>1 DEF CopyReportDate
  <2>2. CASE EnterClaim(a)
    BY <1>2, <1>3, <2>2 DEF EnterClaim
  <2>3. ASSUME NEW all \in BOOLEAN, CancelClaims(a, all)
        PROVE  \E claims : /\ WriteClaims(a, claims)
                           /\ \/ claims = Empty
                              \/ claims = Touch(old, w) /\ old # Empty
    <3>1. CASE all
      BY <2>3, <3>1 DEF CancelClaims
    <3>2. CASE ~ all
      BY <1>2, <1>3, <2>3, <3>2 DEF CancelClaims
    <3> QED
      BY <3>1, <3>2
  <2> QED
    BY <2>1, <2>2, <2>3
<1> QED
  BY <1>4, <1>5

LEMMA WriteClaimsInv ==
    ASSUME Inv, NEW a \in Approvals, NEW claims, ClaimsWritten(a, claims),
           WriteClaims(a, claims)
    PROVE  Inv'
<1>1. /\ writes' = writes + 1 /\ writes \in Nat /\ a \in Outside /\ rows[a] \in Detail
      /\ {"approval", "staff", "clothing", "continuous"} \subseteq Sections
      /\ \A t \in DOMAIN ParentOf : t \in Sections /\ ParentOf[t] \in Sections
      /\ claims \in Rows
  BY OrderIs, ParentsBefore, DetailsAssumption DEF WriteClaims, ClaimsWritten, Inv, TypeOK
<1> DEFINE new == [rows[a] EXCEPT !["clothing"] = claims]
<1>2. /\ rows' = [rows EXCEPT ![a] = new] /\ rows \in [Approvals -> Detail]
  BY DEF WriteClaims, Inv, TypeOK
<1>3. /\ new \in Detail /\ new["clothing"] = claims
      /\ \A s \in Sections \ {"clothing"} : new[s] = rows[a][s]
  BY <1>1 DEF Detail
<1> HIDE DEF new
<1>4. Ordered(rows[a])
  BY DEF Inv, Stored, Stands
<1>5. \A s \in Sections : rows[a][s].id \in Nat /\ rows[a][s].id <= writes
  BY RowFacts
<1>6. \A t \in DOMAIN ParentOf : new[t] = Empty \/ new[t].id = new[ParentOf[t]].id
  <2>1. \A t \in DOMAIN ParentOf : t # "clothing" /\ ParentOf[t] # "clothing"
    BY DEF ParentOf
  <2> QED
    BY <1>1, <1>3, <1>4, <2>1 DEF Ordered, Consistent
<1>7. /\ claims = Empty \/ (claims.id >= rows[a]["staff"].id /\ claims.id > 0)
      /\ claims.id <= writes + 1
  <2>1. CASE claims = Empty
    BY <1>1, <2>1, RowTypes
  <2>2. CASE claims.id = writes + 1
    BY <1>1, <1>5, <2>2
  <2>3. CASE claims.id = rows[a]["clothing"].id /\ rows[a]["clothing"] # Empty
    <3>1. /\ rows[a]["clothing"].id >= rows[a]["staff"].id /\ rows[a]["clothing"].id > 0
          /\ rows[a]["clothing"].id <= writes
      BY <1>1, <1>4, <1>5, <2>3 DEF Ordered, Consistent
    <3> QED
      BY <1>1, <1>5, <2>3, <3>1
  <2> QED
    BY <2>1, <2>2, <2>3 DEF ClaimsWritten
<1>8. Ordered(new)
  <2>1. \A t \in {"clothing", "continuous"} : new[t] = Empty \/ new[t].id >= new["staff"].id
    BY <1>1, <1>3, <1>4, <1>7 DEF Ordered, Consistent
  <2>2. \A s \in Sections : new[s] = Empty \/ new[s].id > 0
    BY <1>1, <1>3, <1>4, <1>7 DEF Ordered
  <2> QED
    BY <1>6, <2>1, <2>2 DEF Ordered, Consistent
<1>9. Wrote(a)
  <2>1. rows'[a] = new /\ rows' \in [Approvals -> Detail]
        /\ \A b \in Approvals \ {a} : rows'[b] = rows[b]
    BY <1>2, <1>3
  <2>2. \A s \in Sections : new[s].id <= writes'
    BY <1>1, <1>3, <1>5, <1>7
  <2>3. new["approval"] # Empty /\ rows[a]["staff"].id <= new["staff"].id
    BY <1>1, <1>3, <1>5 DEF WriteClaims, Exists
  <2> QED
    BY <1>1, <1>8, <2>1, <2>2, <2>3 DEF Wrote, Stands
<1> QED
  BY <1>9, OutsideMoves DEF WriteClaims, Inv, TypeOK

(* update(): what is deleted is inserted again together with all that is
   looked up by it. *)
LEMMA ReplacedTogether ==
    ASSUME NEW edit
    PROVE  /\ \A t \in DOMAIN ParentOf : t \in Replaced(edit) <=> ParentOf[t] \in Replaced(edit)
           /\ "clothing" \in Replaced(edit) <=> "staff" \in edit
           /\ "staff" \in Replaced(edit) <=> "staff" \in edit
           /\ "approval" \notin Replaced(edit)
           /\ "continuous" \notin Replaced(edit)
<1>1. DOMAIN ParentOf = {"tripDates", "locations", "accommodation", "rides", "holidays"}
  BY DEF ParentOf
<1>2. \A s : s \in Replaced(edit) <=>
             \/ s \in edit /\ s \in {"contents", "budgets"}
             \/ "trips" \in edit /\ s \in {"trips", "tripDates"}
             \/ "staff" \in edit /\ s \in Traveller \cup {"clothing"}
  BY DEF Replaced
<1>3. \A t \in DOMAIN ParentOf \ {"tripDates"} : t \in Traveller /\ ParentOf[t] \in Traveller
  BY <1>1 DEF ParentOf, Traveller
<1>4. ParentOf["tripDates"] = "trips"
  BY DEF ParentOf
<1>5. \A s \in Traveller : s \in Replaced(edit) <=> "staff" \in edit
  BY <1>2 DEF Traveller
<1> QED
  BY <1>2, <1>3, <1>4, <1>5 DEF Traveller

LEMMA ChainIs ==
    ASSUME NEW edit, NEW row \in Rows, NEW w \in Nat \ {0}
    PROVE  /\ Chain(edit, row, w) \in Rows
           /\ \/ Chain(edit, row, w) = Empty
              \/ Chain(edit, row, w) # Empty /\ Chain(edit, row, w).id = w
              \/ /\ "staff" \notin edit /\ Chain(edit, row, w) # Empty /\ row # Empty
                 /\ Chain(edit, row, w).id = row.id
<1> DEFINE kept == IF "staff" \in edit THEN Empty ELSE row
<1>1. kept \in Rows /\ (kept # Empty => kept = row /\ "staff" \notin edit)
  BY RowTypes
<1>2. Chain(edit, row, w) = IF "signer" \in edit THEN Grow(kept, w) ELSE kept
  BY DEF Chain
<1> HIDE DEF kept
<1> QED
  BY <1>1, <1>2, GrowIs

LEMMA UpdateMoves ==
    ASSUME Inv, NEW p \in Requests, NEW ref \in Approvals \cup {Nil}, Update(p, ref),
           NEW new, new = [s \in Sections |-> new[s]],
           rows' = [rows EXCEPT ![request[p].id] = new],
           \A s \in Sections : new[s] \in Rows /\ new[s].id <= writes + 1,
           Stands(request[p].id, new), new["approval"] # Empty,
           rows[request[p].id]["staff"].id <= new["staff"].id
    PROVE  Inv'
<1> DEFINE a == request[p].id
           r == [request[p] EXCEPT !.pc = "invalidate"]
<1>1. Writes(p, "update") /\ "update" \in Writers
  BY DEF Update, Writers
<1>2. request[p] \in Request /\ a \in Approvals /\ rows \in [Approvals -> Detail]
  BY <1>1, WritesFacts DEF Inv, TypeOK
<1>3. new \in Detail
  BY DEF Detail
<1>4. Wrote(a)
  BY <1>2, <1>3 DEF Wrote, Update, Writes
<1>5. /\ r \in Request /\ r.pc = "invalidate" /\ r.id = a /\ r.detail = request[p].detail
  BY <1>2 DEF Request, PCs
<1>6. request' = [request EXCEPT ![p] = r]
  BY DEF Update, Invalidating, Become
<1>7. deleted' \subseteq Approvals /\ reference' \in [Approvals -> Approvals \cup {Nil}]
  BY <1>2 DEF Update, Inv, TypeOK
<1> HIDE DEF r
<1> QED
  BY <1>1, <1>2, <1>4, <1>5, <1>6, <1>7, WriteMoves DEF Writes

LEMMA UpdateInv ==
    ASSUME Inv, NEW p \in Requests, NEW ref \in Approvals \cup {Nil}, Update(p, ref)
    PROVE  Inv'
<1> DEFINE a == request[p].id
           edit == request[p].edit
           w == writes'
           old == rows[a]
           Written(s) ==
               IF s \in Replaced(edit) THEN New(w)
               ELSE IF s = "approval" THEN Touch(old[s], w)
               ELSE IF s = "continuous" THEN Chain(edit, old[s], w)
               ELSE old[s]
           new == [s \in Sections |-> Written(s)]
<1>1. Writes(p, "update") /\ "update" \in Writers
  BY DEF Update, Writers
<1>2. /\ a \in Approvals /\ old \in Detail /\ rows \in [Approvals -> Detail]
      /\ w = writes + 1 /\ w \in Nat \ {0} /\ writes \in Nat
      /\ old["approval"] # Empty
      /\ \A s \in {"approval", "staff", "clothing", "continuous"} : s \in Sections
  BY <1>1, WritesFacts, DetailsAssumption DEF Inv, TypeOK
<1>3. \A s \in Sections : /\ old[s] \in Rows /\ old[s].id \in Nat /\ old[s].id <= writes
                          /\ old[s] = Empty \/ old[s].id > 0
  BY <1>2, RowFacts
<1>4. Stands(a, old)
  BY <1>2 DEF Inv, Stored
<1>5. rows' = [rows EXCEPT ![a] = new]
  BY DEF Update
<1> HIDE DEF a, old, w, edit
<1>6. \A s \in Sections : new[s] = Written(s)
  OBVIOUS
<1>7. /\ \A s \in Replaced(edit) \cap Sections : new[s] = New(w)
      /\ new["approval"] = Touch(old["approval"], w)
      /\ new["continuous"] = Chain(edit, old["continuous"], w)
      /\ \A s \in Sections \ (Replaced(edit) \cup {"approval", "continuous"}) : new[s] = old[s]
  BY <1>2, <1>6, ReplacedTogether
<1>8. New(w) \in Rows /\ New(w) # Empty /\ New(w).id = w
  BY <1>2, RowTypes
<1>9. /\ new["approval"] \in Rows /\ new["approval"] # Empty
      /\ new["approval"].id = old["approval"].id
  BY <1>2, <1>3, <1>7, TouchIs
<1>10. /\ new["continuous"] \in Rows
       /\ \/ new["continuous"] = Empty
          \/ new["continuous"].id = w
          \/ /\ "staff" \notin edit /\ old["continuous"] # Empty
             /\ new["continuous"].id = old["continuous"].id
  <2>1. old["continuous"] \in Rows
    BY <1>2, <1>3
  <2>2. PICK c : c = Chain(edit, old["continuous"], w)
    OBVIOUS
  <2>3. c \in Rows
    BY <1>2, <2>1, <2>2, ChainIs, Zenon
  <2>4. PICK e, x : e = edit /\ x = old["continuous"]
    OBVIOUS
  <2>5. PICK v \in Nat \ {0} : v = w
    BY <1>2
  <2>6. c = Chain(e, x, v) /\ x \in Rows
    BY <2>1, <2>2, <2>4, <2>5
  <2>7. c = Empty \/ c.id = v \/ ("staff" \notin e /\ x # Empty /\ c.id = x.id)
    BY <2>6, ChainIs
  <2> QED
    BY <1>7, <2>2, <2>3, <2>4, <2>5, <2>7
<1>11. new = [s \in Sections |-> new[s]]
  OBVIOUS
<1> HIDE DEF new
<1>12. \A s \in Sections : /\ new[s] \in Rows
                           /\ new[s].id <= w
                           /\ new[s] = Empty \/ new[s].id > 0
  <2> SUFFICES ASSUME NEW s \in Sections
               PROVE  /\ new[s] \in Rows /\ new[s].id <= w
                      /\ new[s] = Empty \/ new[s].id > 0
    OBVIOUS
  <2>1. CASE s \in Replaced(edit)
    BY <1>2, <1>7, <1>8, <2>1
  <2>2. CASE s = "approval"
    BY <1>2, <1>3, <1>9, <2>2
  <2>3. CASE s = "continuous"
    BY <1>2, <1>3, <1>10, <2>3, RowTypes
  <2>4. CASE s \notin Replaced(edit) \cup {"approval", "continuous"}
    BY <1>2, <1>3, <1>7, <2>4
  <2> QED
    BY <2>1, <2>2, <2>3, <2>4
<1>13. \A t \in DOMAIN ParentOf : new[t] = Empty \/ new[t].id = new[ParentOf[t]].id
  <2> SUFFICES ASSUME NEW t \in DOMAIN ParentOf
               PROVE  new[t] = Empty \/ new[t].id = new[ParentOf[t]].id
    OBVIOUS
  <2>1. /\ t \in Sections /\ ParentOf[t] \in Sections
        /\ t \notin {"approval", "continuous"} /\ ParentOf[t] \notin {"approval", "continuous"}
    BY OrderIs, ParentsBefore DEF ParentOf
  <2>2. CASE t \in Replaced(edit)
    BY <1>7, <1>8, <2>1, <2>2, ReplacedTogether
  <2>3. CASE t \notin Replaced(edit)
    BY <1>4, <1>7, <2>1, <2>3, ReplacedTogether DEF Stands, Ordered, Consistent
  <2> QED
    BY <2>2, <2>3
<1>14. CASE "staff" \in edit
  <2>1. new["staff"] = New(w) /\ new["clothing"] = New(w)
    BY <1>2, <1>7, <1>14, ReplacedTogether
  <2>2. Stands(a, new)
    BY <1>2, <1>8, <1>10, <1>12, <1>13, <1>14, <2>1 DEF Stands, Ordered, Worn, Consistent
  <2> QED
    BY <1>1, <1>2, <1>3, <1>5, <1>8, <1>9, <1>11, <1>12, <2>1, <2>2, UpdateMoves DEF a, old, w
<1>15. CASE "staff" \notin edit
  <2>1. new["staff"] = old["staff"] /\ new["clothing"] = old["clothing"]
    BY <1>2, <1>7, <1>15, ReplacedTogether
  <2>2. new["continuous"] = Empty \/ new["continuous"].id >= old["staff"].id
    BY <1>2, <1>3, <1>4, <1>10 DEF Stands, Ordered, Consistent
  <2>3. Stands(a, new)
    BY <1>4, <1>12, <1>13, <2>1, <2>2 DEF Stands, Ordered, Worn, Consistent
  <2> QED
    BY <1>1, <1>2, <1>3, <1>5, <1>8, <1>9, <1>11, <1>12, <2>1, <2>3, UpdateMoves DEF a, old, w
<1> QED
  BY <1>14, <1>15

(* duplicate(): what is copied brings along what it is looked up by. *)
LEMMA CopiedTogether ==
    ASSUME NEW op \in Copies
    PROVE  /\ \A t \in DOMAIN ParentOf : t \in Copied(op) => ParentOf[t] \in Copied(op)
           /\ "staff" \in Copied(op)
           /\ "continuous" \notin Copied(op)
           /\ \A t \in DOMAIN ParentOf \cup {"staff", "clothing", "continuous"} :
                  t \notin {"approval", "history"}
           /\ \A t \in DOMAIN ParentOf : ParentOf[t] \notin {"approval", "history"}
<1>1. DOMAIN ParentOf = {"tripDates", "locations", "accommodation", "rides", "holidays"}
  BY DEF ParentOf
<1>2. /\ {"trips", "tripDates", "staff", "locations"} \subseteq Copied(op)
      /\ "accommodation" \in Copied(op) <=> "rides" \in Copied(op)
      /\ "holidays" \notin Copied(op)
      /\ "continuous" \notin Copied(op)
  BY DEF Copied
<1>3. /\ ParentOf["tripDates"] = "trips" /\ ParentOf["locations"] = "staff"
      /\ ParentOf["accommodation"] = "locations" /\ ParentOf["rides"] = "accommodation"
      /\ ParentOf["holidays"] = "accommodation"
  BY DEF ParentOf
<1> QED
  BY <1>1, <1>2, <1>3

LEMMA DuplicateInv ==
    ASSUME Inv, NEW p \in Requests, NEW op \in Copies, NEW b \in Approvals,
           Duplicate(p, op, b)
    PROVE  Inv'
<1> DEFINE d == request[p].detail
           w == writes'
           There(s) == s \in {"approval", "history"} \/ (s \in Copied(op) /\ d[s] # Empty)
           new == [s \in Sections |-> IF There(s) THEN New(w) ELSE Empty]
           r == [request[p] EXCEPT !.pc = "cacheCopy", !.id = b]
<1>1. Writes(p, op) /\ op \in Writers
  BY DEF Duplicate, Writers
<1>2. /\ w = writes + 1 /\ w \in Nat \ {0} /\ writes \in Nat
      /\ Sound(d) /\ request[p] \in Request /\ request[p].id \in Approvals
      /\ rows \in [Approvals -> Detail]
  <2>1. /\ w = writes + 1 /\ w \in Nat \ {0} /\ request[p].id \in Approvals
        /\ rows \in [Approvals -> Detail]
    BY <1>1, WritesFacts
  <2>2. writes \in Nat /\ request[p] \in Request
    BY DetailsAssumption DEF Inv, TypeOK
  <2>3. Sound(d)
    BY DEF Inv, Reads
  <2> QED
    BY <2>1, <2>2, <2>3
<1>3. rows' = [rows EXCEPT ![b] = new]
  <2>1. \A s \in Sections :
            (IF s \in {"approval", "history"} THEN New(w)
             ELSE IF s \in Copied(op) /\ d[s] # Empty THEN New(w) ELSE Empty)
            = (IF There(s) THEN New(w) ELSE Empty)
    OBVIOUS
  <2> QED
    BY <2>1 DEF Duplicate
<1>4. New(w) \in Rows /\ New(w) # Empty /\ New(w).id = w /\ Empty \in Rows /\ Empty.id = 0
  BY <1>2, RowTypes
<1>5. new \in Detail
  BY <1>4 DEF Detail
<1>6. \A s \in Sections : new[s] = IF There(s) THEN New(w) ELSE Empty
  OBVIOUS
<1>7. /\ \A s \in {"approval", "staff", "clothing", "continuous"} : s \in Sections
      /\ \A t \in DOMAIN ParentOf : t \in Sections /\ ParentOf[t] \in Sections
  BY OrderIs, ParentsBefore
<1> HIDE DEF new, w, d
<1>8. \A t \in DOMAIN ParentOf : There(t) => There(ParentOf[t])
  <2> SUFFICES ASSUME NEW t \in DOMAIN ParentOf, There(t) PROVE There(ParentOf[t])
    OBVIOUS
  <2>1. t \in Copied(op) /\ d[t] # Empty /\ ParentOf[t] \in Copied(op)
    BY CopiedTogether
  <2>2. d[t].id = d[ParentOf[t]].id /\ d[t].id > 0
    BY <1>2, <1>7, <2>1 DEF Sound, Ordered, Worn, Consistent
  <2>3. d[ParentOf[t]] # Empty
    BY <2>2, RowTypes
  <2> QED
    BY <2>1, <2>3
<1>9. /\ There("approval")
      /\ There("clothing") => There("staff")
      /\ ~ There("continuous")
  BY <1>2, CopiedTogether DEF Sound, Worn
<1> HIDE DEF There
<1>10. Consistent(new)
  <2>1. \A t \in DOMAIN ParentOf : new[t] = Empty \/ new[t].id = new[ParentOf[t]].id
    BY <1>6, <1>7, <1>8
  <2>2. new["continuous"] = Empty
    BY <1>6, <1>7, <1>9
  <2>3. new["clothing"] = Empty \/ new["clothing"].id >= new["staff"].id
    BY <1>2, <1>4, <1>6, <1>7, <1>9
  <2> QED
    BY <2>1, <2>2, <2>3 DEF Consistent
<1>11. /\ new["clothing"] # Empty => new["staff"] # Empty
       /\ new["approval"] # Empty
  BY <1>4, <1>6, <1>7, <1>9
<1>12. \A s \in Sections : (new[s] = Empty \/ new[s].id > 0) /\ new[s].id <= w
  BY <1>2, <1>4, <1>6
<1>13. ~ Exists(b)
  BY DEF Duplicate
<1>14. Wrote(b)
  <2>1. rows'[b] = new /\ rows' \in [Approvals -> Detail]
        /\ \A c \in Approvals \ {b} : rows'[c] = rows[c]
    BY <1>2, <1>3, <1>5
  <2> QED
    BY <1>2, <1>10, <1>11, <1>12, <1>13, <2>1 DEF Wrote, Stands, Ordered, Worn, w
<1>15. /\ r \in Request /\ r.pc = "cacheCopy" /\ r.id = b /\ r.detail = request[p].detail
  BY <1>2 DEF Request, PCs
<1>16. request' = [request EXCEPT ![p] = r]
  BY DEF Duplicate, Become
<1>17. /\ deleted' \subseteq Approvals
       /\ reference' \in [Approvals -> Approvals \cup {Nil}]
  BY <1>2 DEF Duplicate, Inv, TypeOK
<1> HIDE DEF r
<1> QED
  BY <1>1, <1>14, <1>15, <1>16, <1>17, WriteMoves DEF Writes

-----------------------------------------------------------------------------
(* The inductive invariant. *)

LEMMA InvInit == Init => Inv
<1> SUFFICES ASSUME Init PROVE Inv
  OBVIOUS
<1>1. TypeOK
  BY RowTypes, IdleType, DetailsAssumption DEF Init, TypeOK
<1>2. \A a \in Approvals : Stored(a)
  BY RowTypes, NothingSound DEF Init, Stored, Sound, Stands
<1>3. \A p \in Requests : Reads(request[p])
  BY IdleReads DEF Init
<1>4. Room
  <2>1. Pending = {}
    BY IdleReads DEF Init, Pending
  <2> QED
    BY <2>1, FS_EmptySet, DetailsAssumption DEF Init, Room
<1> QED
  BY <1>1, <1>2, <1>3, <1>4 DEF Inv

LEMMA InvStep == Inv /\ [Next]_vars => Inv'
<1> SUFFICES ASSUME Inv, [Next]_vars PROVE Inv'
  OBVIOUS
<1>1. ASSUME NEW p \in Requests, Proceed(p) PROVE Inv'
  BY <1>1, HitInv, MissInv, ReadInv, FillInv, EndInv, UpdateInv, UpdateStatusInv,
     CancelInv, UpdateDatesInv, SoftDeleteInv, DecideInv, DuplicateInv DEF Proceed
<1>2. ASSUME NEW p \in Requests, NEW op \in Ops, NEW a \in Approvals,
             IF op = "update" THEN \E edit \in Edits : Arrive(p, op, a, edit)
                              ELSE Arrive(p, op, a, {})
      PROVE  Inv'
  BY <1>2, ArriveInv, DetailsAssumption
<1>3. CASE UNCHANGED vars
  <2>1. TypeOK' /\ Room'
    BY <1>3 DEF vars, Inv, TypeOK, Room, Pending
  <2>2. \A p \in Requests : Reads(request[p])'
    BY <1>3 DEF vars, Inv, Reads, Exists
  <2>3. \A a \in Approvals : Stored(a)'
    BY <1>3 DEF vars, Inv, Stored, Exists
  <2> QED
    BY <2>1, <2>2, <2>3 DEF Inv
<1> QED
  BY <1>1, <1>2, <1>3, EndInv, CreateInv, ExpireInv, OutsideWrites, WriteClaimsInv DEF Next

(* The inductive invariant of the details: what is stored is sound, requests
   read in order, and transactions have the room they were promised. *)
THEOREM Invariance == Spec => []Inv
BY InvInit, InvStep, PTL DEF Spec

(* Every variable always holds what its table, key or request can hold. *)
THEOREM TypeCorrect == Spec => []TypeOK
<1>1. Inv => TypeOK
  BY DEF Inv
<1> QED
  BY Invariance, <1>1, PTL

(* No detail ever shows a traveller of one submission with places, costs or
   holidays of another, or with clothing expenses or signatures of an earlier
   one, whatever is replaced while findById reads. *)
THEOREM NoOldUnderNew == Spec => []NoOldSubmissionUnderNew
<1>1. Inv => NoOldSubmissionUnderNew
  BY DEF Inv, Stored, Sound, Ordered, NoOldSubmissionUnderNew
<1> QED
  BY Invariance, <1>1, PTL

-----------------------------------------------------------------------------
(* Requests one after the other. *)

OneAtATime ==
    /\ \A p, q \in Requests : p = q
    /\ FaultPoints = {}

Shows(d, a) == a \notin deleted /\ \A s \in Heard(a) : d[s] = rows[a][s]

(* The approval a transaction has written and the cache has not been told of. *)
Untold(a) == \E p \in Requests : request[p].pc = "invalidate" /\ request[p].id = a

(* What a request has read so far is what the tables hold. *)
ReadsCurrent(r) ==
    /\ r.pc = "reading" =>
           \E i \in 1..14 :
               /\ r.todo = Rest(i)
               /\ i # 1 => r.id \notin deleted
               /\ \A j \in 1..(i-1) :
                      ReadOrder[j] \in Heard(r.id) =>
                          r.detail[ReadOrder[j]] = rows[r.id][ReadOrder[j]]
    /\ r.pc = "fill" => Shows(r.detail, r.id)

HeardInv ==
    /\ \A a \in Approvals :
           cache[a] \in {Nil, Nothing} \/ Shows(cache[a], a) \/ Untold(a)
    /\ \A p \in Requests : ReadsCurrent(request[p])

LEMMA HeardSections ==
    /\ \A a, s : s \in Heard(a) <=>
           s \in Sections /\ s # "reference" /\ (s = "clothing" => a \notin Outside)
    /\ \A a : \A s \in Heard(a) : \E j \in 1..14 : ReadOrder[j] = s
<1>1. \A a, s : s \in Heard(a) <=>
          s \in Sections /\ s # "reference" /\ (s = "clothing" => a \notin Outside)
  BY DEF Heard
<1>2. \A s \in Sections : \E j \in 1..14 : ReadOrder[j] = s
  BY OrderIs DEF Sections
<1> QED
  BY <1>1, <1>2

(* What is current stays current while its tables stay. *)
LEMMA CurrentStays ==
    ASSUME NEW r, ReadsCurrent(r),
           r.pc \in {"reading", "fill"} =>
               /\ \A s \in Heard(r.id) : rows'[r.id][s] = rows[r.id][s]
               /\ r.id \notin deleted => r.id \notin deleted'
    PROVE  ReadsCurrent(r)'
<1>1. CASE r.pc = "reading"
  <2>1. PICK i \in 1..14 :
            /\ r.todo = Rest(i)
            /\ i # 1 => r.id \notin deleted
            /\ \A j \in 1..(i-1) :
                   ReadOrder[j] \in Heard(r.id) =>
                       r.detail[ReadOrder[j]] = rows[r.id][ReadOrder[j]]
    BY <1>1 DEF ReadsCurrent
  <2>2. i # 1 => r.id \notin deleted'
    BY <1>1, <2>1
  <2>3. \A j \in 1..(i-1) :
            ReadOrder[j] \in Heard(r.id) =>
                r.detail[ReadOrder[j]] = rows'[r.id][ReadOrder[j]]
    BY <1>1, <2>1
  <2>4. r.pc # "fill"
    BY <1>1
  <2> QED
    BY <2>1, <2>2, <2>3, <2>4 DEF ReadsCurrent
<1>2. CASE r.pc = "fill"
  BY <1>2 DEF ReadsCurrent, Shows
<1>3. CASE r.pc \notin {"reading", "fill"}
  BY <1>3 DEF ReadsCurrent
<1> QED
  BY <1>1, <1>2, <1>3

(* A request moves on, and the tables stay. *)
LEMMA HeardMoves ==
    ASSUME OneAtATime, Inv, HeardInv, NEW p \in Requests, NEW r,
           request' = [request EXCEPT ![p] = r], UNCHANGED <<rows, deleted>>,
           ReadsCurrent(r), request[p].pc # "invalidate",
           \A a \in Approvals : \/ cache'[a] = cache[a]
                                \/ cache'[a] \in {Nil, Nothing}
                                \/ Shows(cache'[a], a)
    PROVE  HeardInv'
<1>1. request'[p] = r /\ \A q \in Requests : q = p
  BY DEF OneAtATime, Inv, TypeOK
<1>2. \A q \in Requests : ReadsCurrent(request[q])'
  <2> SUFFICES ASSUME NEW q \in Requests PROVE ReadsCurrent(request[q])'
    OBVIOUS
  <2>1. request'[q] = r
    BY <1>1
  <2>2. ReadsCurrent(r)'
    BY CurrentStays
  <2> QED
    BY <2>1, <2>2 DEF ReadsCurrent
<1>3. \A a \in Approvals : ~ Untold(a)
  BY <1>1 DEF Untold
<1>4. \A a \in Approvals : cache'[a] \in {Nil, Nothing} \/ Shows(cache[a], a)'
  BY <1>3 DEF HeardInv, Shows
<1> QED
  BY <1>2, <1>4 DEF HeardInv

(* A transaction writes an approval, and its request goes on to tell the
   cache; or it writes one that no cache and no request knows. *)
LEMMA HeardWrites ==
    ASSUME OneAtATime, Inv, HeardInv, UNCHANGED cache,
           NEW a \in Approvals, \A b \in Approvals \ {a} : rows'[b] = rows[b],
           deleted' \subseteq deleted \cup {a},
           \A q \in Requests :
               \/ request'[q].pc \notin {"reading", "fill"}
               \/ /\ request'[q] = request[q]
                  /\ request[q].id # a,
           \A q \in Requests : request[q].pc = "invalidate" => request'[q] = request[q],
           cache[a] = Nil \/ Untold(a)'
    PROVE  HeardInv'
<1>1. \A b \in Approvals : Untold(b) => Untold(b)'
  BY DEF Untold
<1>2. ASSUME NEW b \in Approvals
      PROVE  (cache[b] \in {Nil, Nothing} \/ Shows(cache[b], b) \/ Untold(b))'
  <2>1. CASE b = a
    BY <2>1
  <2>2. CASE b # a
    BY <1>1, <2>2 DEF HeardInv, Shows
  <2> QED
    BY <2>1, <2>2
<1>3. ASSUME NEW q \in Requests PROVE ReadsCurrent(request[q])'
  <2>1. CASE request'[q].pc \notin {"reading", "fill"}
    BY <2>1 DEF ReadsCurrent
  <2>2. CASE request'[q].pc \in {"reading", "fill"}
    <3>1. request'[q] = request[q] /\ request[q].id # a /\ ReadsCurrent(request[q])
      BY <2>2 DEF HeardInv
    <3>2. request[q].id \in Approvals
      BY <2>2, <3>1 DEF Inv, Reads
    <3>3. (\A s \in Heard(request[q].id) : rows'[request[q].id][s] = rows[request[q].id][s])
          /\ (request[q].id \notin deleted => request[q].id \notin deleted')
      BY <3>1, <3>2
    <3>4. PICK r : r = request[q]
      OBVIOUS
    <3>5. ReadsCurrent(r)'
      BY <3>1, <3>3, <3>4, CurrentStays
    <3>6. request'[q] = r
      BY <3>1, <3>4
    <3> QED
      BY <3>5, <3>6 DEF ReadsCurrent
  <2> QED
    BY <2>1, <2>2
<1> QED
  BY <1>2, <1>3 DEF HeardInv

LEMMA HeardCreate ==
    ASSUME OneAtATime, Inv, HeardInv, NEW a \in Approvals, NEW ref, Create(a, ref)
    PROVE  HeardInv'
<1>1. cache[a] = Nil /\ UNCHANGED <<cache, request, deleted>>
  BY DEF Create, Inv, Stored
<1>2. \A b \in Approvals \ {a} : rows'[b] = rows[b]
  BY DEF Create, Inv, TypeOK
<1>3. \A q \in Requests : request[q].pc # "idle" => request[q].id # a
  BY DEF Create, Inv, Reads
<1> QED
  BY <1>1, <1>2, <1>3, HeardWrites

LEMMA HeardWrite ==
    ASSUME OneAtATime, Inv, HeardInv, NEW p \in Requests, NEW op \in Writers,
           Writes(p, op), Invalidating(p),
           \A b \in Approvals \ {request[p].id} : rows'[b] = rows[b],
           deleted' \subseteq deleted \cup {request[p].id}
    PROVE  HeardInv'
<1> DEFINE r == [request[p] EXCEPT !.pc = "invalidate"]
<1>1. request[p].pc = "write" /\ request[p] \in Request /\ request[p].id \in Approvals
  BY DEF Writes, Inv, TypeOK, Reads
<1>2. request' = [request EXCEPT ![p] = r] /\ UNCHANGED cache
  BY DEF Invalidating, Become, Writes
<1>3. r.pc = "invalidate" /\ r.id = request[p].id
  BY <1>1 DEF Request
<1> HIDE DEF r
<1>4. request'[p] = r /\ \A q \in Requests : q = p
  BY <1>2 DEF OneAtATime, Inv, TypeOK
<1>5. PICK a \in Approvals : a = request[p].id
  BY <1>1
<1>6. \A q \in Requests : request'[q].pc \notin {"reading", "fill"}
  BY <1>3, <1>4
<1>7. \A q \in Requests : request[q].pc # "invalidate"
  BY <1>1, <1>4
<1>8. Untold(a)'
  BY <1>3, <1>4, <1>5 DEF Untold
<1>9. /\ \A b \in Approvals \ {a} : rows'[b] = rows[b]
      /\ deleted' \subseteq deleted \cup {a}
  BY <1>5
<1> QED
  BY <1>2, <1>6, <1>7, <1>8, <1>9, HeardWrites

LEMMA HeardDuplicate ==
    ASSUME OneAtATime, Inv, HeardInv, NEW p \in Requests, NEW op \in Copies,
           NEW b \in Approvals, Duplicate(p, op, b)
    PROVE  HeardInv'
<1> DEFINE r == [request[p] EXCEPT !.pc = "cacheCopy", !.id = b]
<1>1. request[p].pc = "write" /\ request[p] \in Request
  BY DEF Duplicate, Writes, Inv, TypeOK
<1>2. request' = [request EXCEPT ![p] = r] /\ UNCHANGED <<cache, deleted>>
  BY DEF Duplicate, Become, Writes
<1>3. r.pc = "cacheCopy"
  BY <1>1 DEF Request
<1> HIDE DEF r
<1>4. request'[p] = r /\ \A q \in Requests : q = p
  BY <1>2 DEF OneAtATime, Inv, TypeOK
<1>5. cache[b] = Nil
  BY DEF Duplicate, Inv, Stored
<1>6. \A c \in Approvals \ {b} : rows'[c] = rows[c]
  BY DEF Duplicate, Inv, TypeOK
<1>7. \A q \in Requests : request'[q].pc \notin {"reading", "fill"}
                          /\ request[q].pc # "invalidate"
  BY <1>1, <1>3, <1>4
<1> QED
  BY <1>2, <1>5, <1>6, <1>7, HeardWrites

-----------------------------------------------------------------------------
(* findById alone reads what the tables hold. *)

LEMMA IdleCurrent == ReadsCurrent(Idle)
BY DEF ReadsCurrent, Idle

LEMMA AnsweredCurrent ==
    ASSUME NEW r \in Request
    PROVE  ReadsCurrent(Answered(r))
<1>1. CASE r.op = "read"
  BY <1>1, IdleCurrent DEF Answered
<1>2. CASE r.op # "read"
  <2>1. Answered(r).pc = "write"
    BY <1>2 DEF Answered, Request
  <2> QED
    BY <2>1 DEF ReadsCurrent
<1> QED
  BY <1>1, <1>2

LEMMA HeardArrive ==
    ASSUME OneAtATime, Inv, HeardInv, NEW p \in Requests, NEW op, NEW a, NEW edit,
           Arrive(p, op, a, edit)
    PROVE  HeardInv'
<1> DEFINE r == [Idle EXCEPT !.pc = IF op = "decide" THEN "write" ELSE "lookup",
                             !.op = op, !.id = a, !.edit = edit]
<1>1. r.pc \in {"write", "lookup"}
  BY DEF Idle
<1>2. request' = [request EXCEPT ![p] = r] /\ request[p].pc = "idle"
  BY DEF Arrive, Become
<1> HIDE DEF r
<1>3. ReadsCurrent(r)
  BY <1>1 DEF ReadsCurrent
<1>4. UNCHANGED <<rows, deleted, cache>>
  BY DEF Arrive
<1> QED
  BY <1>2, <1>3, <1>4, HeardMoves

LEMMA HeardHit ==
    ASSUME OneAtATime, Inv, HeardInv, NEW p \in Requests, Hit(p)
    PROVE  HeardInv'
<1> DEFINE r == [request[p] EXCEPT !.detail = cache[request[p].id]]
<1>1. request[p].id \in Approvals /\ request[p] \in Request /\ request[p].pc = "lookup"
  BY DEF Hit, Inv, TypeOK, Reads
<1>2. r \in Request
  BY <1>1 DEF Hit, Inv, TypeOK, Request
<1>3. request' = [request EXCEPT ![p] = Answered(r)]
  BY DEF Hit, Become
<1> HIDE DEF r
<1>4. ReadsCurrent(Answered(r))
  BY <1>2, AnsweredCurrent
<1>5. UNCHANGED <<rows, deleted, cache>>
  BY DEF Hit
<1> QED
  BY <1>1, <1>3, <1>4, <1>5, HeardMoves

LEMMA HeardMiss ==
    ASSUME OneAtATime, Inv, HeardInv, NEW p \in Requests, Miss(p)
    PROVE  HeardInv'
<1> DEFINE r == [request[p] EXCEPT !.pc = "reading", !.todo = ReadOrder]
<1>1. request[p] \in Request /\ request[p].pc = "lookup"
  BY DEF Miss, Inv, TypeOK
<1>2. r.pc = "reading" /\ r.todo = Rest(1)
  BY <1>1, RestIs DEF Request
<1>3. request' = [request EXCEPT ![p] = r]
  BY DEF Miss, Become
<1> HIDE DEF r
<1>4. ReadsCurrent(r)
  BY <1>2 DEF ReadsCurrent
<1>5. UNCHANGED <<rows, deleted, cache>>
  BY DEF Miss
<1> QED
  BY <1>1, <1>3, <1>4, <1>5, HeardMoves

LEMMA HeardNotFound ==
    ASSUME OneAtATime, Inv, HeardInv, NEW p \in Requests, NotFound(p)
    PROVE  HeardInv'
<1>1. /\ request' = [request EXCEPT ![p] = Idle] /\ request[p].pc = "reading"
      /\ UNCHANGED <<rows, deleted, cache>>
  BY DEF NotFound, Become
<1> QED
  BY <1>1, IdleCurrent, HeardMoves

(* With what stands above it read as it is, a section is found as it is. *)
Plain == Sections \ {"reference", "clothing"}

LEMMA LookPlain ==
    ASSUME Inv, NEW a \in Approvals, NEW d \in Detail, NEW ref, NEW s \in Plain,
           s \in DOMAIN ParentOf => d[ParentOf[s]] = rows[a][ParentOf[s]]
    PROVE  Look(a, s, d, ref) = rows[a][s]
<1>1. CASE s \in DOMAIN ParentOf
  <2>1. rows[a][s] = Empty \/ rows[a][s].id = rows[a][ParentOf[s]].id
    BY <1>1 DEF Inv, Stored, Stands, Ordered, Consistent
  <2>2. Look(a, s, d, ref) =
            IF rows[a][s].id = d[ParentOf[s]].id THEN rows[a][s] ELSE Empty
    <3>1. s # "clothing" /\ s # "reference"
      BY DEF Plain
    <3> QED
      BY <1>1, <3>1 DEF Look
  <2> QED
    BY <1>1, <2>1, <2>2
<1>2. CASE s \notin DOMAIN ParentOf
  BY <1>2 DEF Look, Plain
<1> QED
  BY <1>1, <1>2

LEMMA PlainSections ==
    /\ "staff" \in Plain
    /\ \A s \in DOMAIN ParentOf : s \in Plain /\ ParentOf[s] \in Plain
    /\ \A a : Plain \subseteq Heard(a)
<1>1. \A s \in DOMAIN ParentOf : s # "clothing" /\ s # "reference"
  BY DEF ParentOf
<1> QED
  BY <1>1, OrderIs, ParentsBefore DEF Plain, Heard

LEMMA LookCurrent ==
    ASSUME Inv, NEW a \in Approvals, NEW d \in Detail, NEW ref, NEW s \in Heard(a),
           \A t \in Heard(a) : Before(t, s) => d[t] = rows[a][t]
    PROVE  Look(a, s, d, ref) = rows[a][s]
<1>1. CASE s \in Plain
  <2>1. s \in DOMAIN ParentOf => d[ParentOf[s]] = rows[a][ParentOf[s]]
    BY PlainSections, ParentsBefore
  <2> QED
    BY <1>1, <2>1, LookPlain
<1>2. CASE s = "clothing"
  <2>1. d["staff"] = rows[a]["staff"]
    BY <1>2, PlainSections, ParentsBefore
  <2>2. s \notin DOMAIN ParentOf
    BY <1>2 DEF ParentOf
  <2>3. rows[a]["clothing"] # Empty => rows[a]["staff"] # Empty
    BY <1>2, HeardSections DEF Inv, Stored, Stands, Worn
  <2> QED
    BY <1>2, <2>1, <2>2, <2>3 DEF Look
<1> QED
  BY <1>1, <1>2, HeardSections DEF Plain

LEMMA HeardRead ==
    ASSUME OneAtATime, Inv, HeardInv, NEW p \in Requests, Read(p)
    PROVE  HeardInv'
<1> DEFINE a == request[p].id
           old == request[p].detail
<1>1. PICK i \in 1..14 :
          /\ request[p].todo = Rest(i)
          /\ i # 1 => a \notin deleted
          /\ \A j \in 1..(i-1) :
                 ReadOrder[j] \in Heard(a) => old[ReadOrder[j]] = rows[a][ReadOrder[j]]
  BY DEF Read, HeardInv, ReadsCurrent
<1> DEFINE s == ReadOrder[i]
           v == Look(a, s, old, request[p].ref)
           r == [request[p] EXCEPT
                    !.detail[s] = Look(request[p].id, s, request[p].detail, request[p].ref),
                    !.ref = IF s = "approval" THEN reference[request[p].id] ELSE @,
                    !.todo = Tail(Rest(i)),
                    !.pc = IF Tail(Rest(i)) = <<>> THEN "fill" ELSE "reading"]
<1>2. Head(request[p].todo) = s /\ s \in Sections
  BY <1>1, RestIs
<1>3. request' = [request EXCEPT ![p] = r]
  <2> HIDE DEF s
  <2> QED
    BY <1>1, <1>2 DEF Read, Become
<1>4. /\ request[p] \in Request /\ a \in Approvals /\ old \in Detail
      /\ request[p].ref \in Approvals \cup {Nil} /\ request[p].pc = "reading"
  BY DEF Read, Inv, TypeOK, Reads, Request
<1>5. a \notin deleted
  BY <1>1, <1>2, RestIs DEF Read
<1>6. /\ r.detail = [old EXCEPT ![s] = v]
      /\ r.id = a /\ r.todo = Tail(Rest(i))
      /\ r.pc = IF Tail(Rest(i)) = <<>> THEN "fill" ELSE "reading"
  BY <1>4 DEF Request
<1>7. s \in Heard(a) => v = rows[a][s]
  <2> SUFFICES ASSUME s \in Heard(a), NEW t \in Heard(a), Before(t, s)
               PROVE  old[t] = rows[a][t]
    BY <1>4, LookCurrent
  <2>1. PICK j \in 1..14 : ReadOrder[j] = t
    BY HeardSections
  <2>2. j \notin i..14
    BY <2>1 DEF Before
  <2>3. j \in 1..(i-1)
    BY <2>2
  <2> QED
    BY <1>1, <2>1, <2>3
<1>8. \A j \in 1..i : ReadOrder[j] \in Heard(a) => r.detail[ReadOrder[j]] = rows[a][ReadOrder[j]]
  <2> HIDE DEF r, v
  <2> SUFFICES ASSUME NEW j \in 1..i, ReadOrder[j] \in Heard(a)
               PROVE  r.detail[ReadOrder[j]] = rows[a][ReadOrder[j]]
    OBVIOUS
  <2>1. CASE j = i
    BY <1>2, <1>4, <1>6, <1>7, <2>1 DEF Detail
  <2>2. CASE j # i
    <3>1. j \in 1..(i-1) /\ j \in 1..14
      BY <2>2
    <3>2. ReadOrder[j] # s
      BY <2>2, <3>1, OrderInjective
    <3> QED
      BY <1>1, <1>4, <1>6, <3>1, <3>2 DEF Detail
  <2> QED
    BY <2>1, <2>2
<1>9. /\ i = 14 => Tail(Rest(i)) = <<>>
      /\ Tail(Rest(i)) # <<>> => i + 1 \in 1..14 /\ Tail(Rest(i)) = Rest(i + 1)
  BY RestIs, RestTail
<1> HIDE DEF r, v, s
<1>10. ReadsCurrent(r)
  <2>1. CASE Tail(Rest(i)) # <<>>
    <3>1. r.pc = "reading" /\ r.todo = Rest(i + 1) /\ i + 1 \in 1..14 /\ r.id \notin deleted
      BY <1>5, <1>6, <1>9, <2>1
    <3>2. \A j \in 1..((i + 1) - 1) :
              ReadOrder[j] \in Heard(r.id) =>
                  r.detail[ReadOrder[j]] = rows[r.id][ReadOrder[j]]
      BY <1>6, <1>8
    <3> QED
      BY <3>1, <3>2 DEF ReadsCurrent
  <2>2. CASE Tail(Rest(i)) = <<>>
    <3>1. i = 14
      <4>1. i # 14 => Tail(Rest(i)) # <<>>
        BY RestIs, Zenon
      <4> QED
        BY <2>2, <4>1
    <3>2. \A t \in Heard(a) : r.detail[t] = rows[a][t]
      BY <1>8, <3>1, HeardSections
    <3> QED
      BY <1>5, <1>6, <2>2, <3>2 DEF ReadsCurrent, Shows
  <2> QED
    BY <2>1, <2>2
<1>11. UNCHANGED <<rows, deleted, cache>>
  BY DEF Read
<1> QED
  BY <1>3, <1>4, <1>10, <1>11, HeardMoves

LEMMA HeardFill ==
    ASSUME OneAtATime, Inv, HeardInv, NEW p \in Requests, Fill(p)
    PROVE  HeardInv'
<1> DEFINE r == request[p]
<1>1. /\ r \in Request /\ r.pc = "fill" /\ r.id \in Approvals
      /\ Shows(r.detail, r.id) /\ cache \in [Approvals -> Detail \cup {Nil}]
  BY DEF Fill, Inv, TypeOK, Reads, HeardInv, ReadsCurrent
<1>2. request' = [request EXCEPT ![p] = Answered(r)] /\ UNCHANGED <<rows, deleted>>
  BY DEF Fill, Become
<1>3. \A a \in Approvals : cache'[a] = cache[a] \/ (cache'[a] = r.detail /\ a = r.id)
  BY <1>1 DEF Fill
<1>4. ReadsCurrent(Answered(r))
  BY <1>1, AnsweredCurrent
<1>5. \A a \in Approvals : cache'[a] = cache[a] \/ Shows(cache'[a], a)
  BY <1>1, <1>3
<1> QED
  BY <1>1, <1>2, <1>4, <1>5, HeardMoves

LEMMA HeardCacheCopy ==
    ASSUME OneAtATime, Inv, HeardInv, NEW p \in Requests, CacheCopy(p)
    PROVE  HeardInv'
<1>1. /\ request' = [request EXCEPT ![p] = Idle] /\ request[p].pc = "cacheCopy"
      /\ UNCHANGED <<rows, deleted>>
  BY DEF CacheCopy, Become
<1>2. \A a \in Approvals : cache'[a] = cache[a] \/ cache'[a] = Nothing
  BY DEF CacheCopy, Inv, TypeOK
<1> QED
  BY <1>1, <1>2, IdleCurrent, HeardMoves

LEMMA HeardInvalidate ==
    ASSUME OneAtATime, Inv, HeardInv, NEW p \in Requests, Invalidate(p)
    PROVE  HeardInv'
<1>1. /\ request' = [request EXCEPT ![p] = Idle] /\ request[p].pc = "invalidate"
      /\ UNCHANGED <<rows, deleted>>
  BY DEF Invalidate, Become
<1>2. \A q \in Requests : q = p
  BY DEF OneAtATime
<1>3. \A a \in Approvals : \/ cache'[a] = Nil
                           \/ cache'[a] = cache[a] /\ ~ Untold(a)
  BY <1>2 DEF Invalidate, Untold, Inv, TypeOK
<1>4. \A a \in Approvals : cache'[a] \in {Nil, Nothing} \/ Shows(cache[a], a)'
  BY <1>1, <1>3 DEF HeardInv, Shows
<1>5. \A q \in Requests : ReadsCurrent(request[q])'
  <2>1. \A q \in Requests : request'[q].pc = "idle"
    BY <1>1, <1>2 DEF Inv, TypeOK, Idle
  <2> QED
    BY <2>1 DEF ReadsCurrent
<1> QED
  BY <1>4, <1>5 DEF HeardInv

(* Details go from the cache, or rows nobody tells it of change. *)
LEMMA HeardStays ==
    ASSUME Inv, HeardInv, UNCHANGED <<deleted, request>>,
           \A a \in Approvals : \A s \in Heard(a) : rows'[a][s] = rows[a][s],
           \A a \in Approvals : cache'[a] = Nil \/ cache'[a] = cache[a]
    PROVE  HeardInv'
<1>1. \A p \in Requests : ReadsCurrent(request[p])'
  <2> SUFFICES ASSUME NEW p \in Requests PROVE ReadsCurrent(request[p])'
    OBVIOUS
  <2>1. PICK r : r = request[p]
    OBVIOUS
  <2>2. r.pc \in {"reading", "fill"} => r.id \in Approvals
    BY <2>1 DEF Inv, Reads
  <2>3. ReadsCurrent(r)'
    BY <2>1, <2>2, CurrentStays DEF HeardInv
  <2>4. request'[p] = r
    BY <2>1
  <2> QED
    BY <2>3, <2>4 DEF ReadsCurrent
<1>2. \A a \in Approvals : Untold(a) => Untold(a)'
  BY DEF Untold
<1>3. \A a \in Approvals :
          (cache[a] \in {Nil, Nothing} \/ Shows(cache[a], a) \/ Untold(a))'
  BY <1>2 DEF HeardInv, Shows
<1> QED
  BY <1>1, <1>3 DEF HeardInv

LEMMA HeardExpire ==
    ASSUME Inv, HeardInv, NEW a \in Approvals, Expire(a)
    PROVE  HeardInv'
<1>1. /\ UNCHANGED <<rows, deleted, request>>
      /\ \A b \in Approvals : cache'[b] = Nil \/ cache'[b] = cache[b]
  BY DEF Expire, Inv, TypeOK
<1> QED
  BY <1>1, HeardStays

(* Who writes claims past ApprovalService changes nothing the others tell. *)
LEMMA HeardOutside ==
    ASSUME Inv, HeardInv, NEW a \in Approvals, NEW claims, WriteClaims(a, claims)
    PROVE  HeardInv'
<1>1. a \in Outside /\ UNCHANGED <<deleted, cache, request>>
  BY DEF WriteClaims
<1>2. ASSUME NEW b \in Approvals, NEW s \in Heard(b) PROVE rows'[b][s] = rows[b][s]
  <2>1. rows \in [Approvals -> [Sections -> Rows]]
    BY DEF Inv, TypeOK, Detail
  <2>2. b # a \/ s # "clothing"
    BY <1>1, HeardSections
  <2> QED
    BY <2>1, <2>2 DEF WriteClaims
<1> QED
  BY <1>1, <1>2, HeardStays

LEMMA HeardProceed ==
    ASSUME OneAtATime, Inv, HeardInv, NEW p \in Requests, Proceed(p)
    PROVE  HeardInv'
<1>1. ASSUME NEW ref, Update(p, ref) PROVE HeardInv'
  <2>1. /\ Writes(p, "update") /\ Invalidating(p) /\ "update" \in Writers
        /\ UNCHANGED deleted
    BY <1>1 DEF Update, Writers
  <2>2. \A b \in Approvals \ {request[p].id} : rows'[b] = rows[b]
    BY <1>1 DEF Update, Inv, TypeOK
  <2> QED
    BY <2>1, <2>2, HeardWrite
<1>2. CASE UpdateStatus(p)
  <2>1. /\ Writes(p, "status") /\ Invalidating(p) /\ "status" \in Writers
        /\ UNCHANGED deleted
    BY <1>2 DEF UpdateStatus, Writers
  <2>2. \A b \in Approvals \ {request[p].id} : rows'[b] = rows[b]
    BY <1>2 DEF UpdateStatus, Inv, TypeOK
  <2> QED
    BY <2>1, <2>2, HeardWrite
<1>3. CASE Cancel(p)
  <2>1. /\ Writes(p, "cancel") /\ Invalidating(p) /\ "cancel" \in Writers
        /\ UNCHANGED deleted
    BY <1>3 DEF Cancel, Writers
  <2>2. \A b \in Approvals \ {request[p].id} : rows'[b] = rows[b]
    BY <1>3 DEF Cancel, Inv, TypeOK
  <2> QED
    BY <2>1, <2>2, HeardWrite
<1>4. CASE UpdateDates(p)
  <2>1. /\ Writes(p, "dates") /\ Invalidating(p) /\ "dates" \in Writers
        /\ UNCHANGED deleted
    BY <1>4 DEF UpdateDates, Writers
  <2>2. \A b \in Approvals \ {request[p].id} : rows'[b] = rows[b]
    BY <1>4 DEF UpdateDates, Inv, TypeOK
  <2> QED
    BY <2>1, <2>2, HeardWrite
<1>5. CASE SoftDelete(p)
  <2>1. /\ Writes(p, "remove") /\ Invalidating(p) /\ "remove" \in Writers
        /\ deleted' \subseteq deleted \cup {request[p].id}
    BY <1>5 DEF SoftDelete, Writers
  <2>2. \A b \in Approvals \ {request[p].id} : rows'[b] = rows[b]
    BY <1>5 DEF SoftDelete, Inv, TypeOK
  <2> QED
    BY <2>1, <2>2, HeardWrite
<1>6. ASSUME NEW verdict \in BOOLEAN, Decide(p, verdict) PROVE HeardInv'
  <2>1. /\ Writes(p, "decide") /\ Invalidating(p) /\ "decide" \in Writers
        /\ UNCHANGED deleted
    BY <1>6 DEF Decide, Writers
  <2>2. \A b \in Approvals \ {request[p].id} : rows'[b] = rows[b]
    BY <1>6 DEF Decide, Inv, TypeOK
  <2> QED
    BY <2>1, <2>2, HeardWrite
<1> QED
  BY <1>1, <1>2, <1>3, <1>4, <1>5, <1>6, HeardHit, HeardMiss, HeardNotFound, HeardRead,
     HeardFill, HeardDuplicate, HeardInvalidate, HeardCacheCopy DEF Proceed

LEMMA HeardStep ==
    ASSUME OneAtATime, Inv, HeardInv, [Next]_vars
    PROVE  HeardInv'
<1>1. CASE UNCHANGED vars
  BY <1>1, HeardStays DEF vars
<1>2. ASSUME NEW a \in Approvals,
             \/ CopyReportDate(a) \/ EnterClaim(a)
             \/ \E all \in BOOLEAN : CancelClaims(a, all)
      PROVE  HeardInv'
  BY <1>2, OutsideWrites, HeardOutside
<1>3. \A p \in Requests : ~ Abort(p)
  BY DEF Abort, OneAtATime
<1>4. ASSUME NEW p \in Requests, NEW op, NEW a,
             IF op = "update" THEN \E edit \in Edits : Arrive(p, op, a, edit)
                              ELSE Arrive(p, op, a, {})
      PROVE  HeardInv'
  BY <1>4, HeardArrive
<1>5. ASSUME NEW a \in Approvals,
             \/ \E ref \in Approvals \cup {Nil} : Create(a, ref)
             \/ Expire(a) \/ CopyReportDate(a) \/ EnterClaim(a)
             \/ \E all \in BOOLEAN : CancelClaims(a, all)
             \/ \E p \in Requests, op \in Ops :
                    IF op = "update" THEN \E edit \in Edits : Arrive(p, op, a, edit)
                                     ELSE Arrive(p, op, a, {})
      PROVE  HeardInv'
  BY <1>2, <1>4, <1>5, HeardCreate, HeardExpire
<1> QED
  BY <1>1, <1>3, <1>5, HeardProceed DEF Next

(* Requests one after the other: whoever has written an approval through
   ApprovalService finds what it wrote, as every handler deletes the cached
   detail after its transaction; whatever the nightly job, cancellations and
   clerks write meanwhile, and whatever copies are made. *)
THEOREM WritersHeard ==
    ASSUME OneAtATime
    PROVE  Spec => []WritersAreHeard
<1>1. Init => HeardInv
  BY IdleCurrent DEF Init, HeardInv
<1>2. Inv /\ HeardInv /\ [Next]_vars => HeardInv'
  BY HeardStep
<1>3. HeardInv => WritersAreHeard
  BY DEF HeardInv, WritersAreHeard, Quiet, Untold, Shows
<1> QED
  BY <1>1, <1>2, <1>3, Invariance, PTL DEF Spec

-----------------------------------------------------------------------------
(* Once writes cease, however many requests read together and fail: what every
   one of them has read is what the tables hold, approval_ref included. *)

IsCurrent(d, a) == a \notin deleted /\ d = Current(a)

Fresh(a) == cache[a] = Nil \/ IsCurrent(cache[a], a)

CurrentSoFar(r) ==
    /\ r.pc \in {"idle", "lookup", "reading", "fill", "write"}
    /\ r.pc = "reading" =>
           \E i \in 1..14 :
               /\ r.todo = Rest(i)
               /\ i # 1 => r.id \notin deleted /\ r.ref = reference[r.id]
               /\ \A j \in 1..(i-1) :
                      r.detail[ReadOrder[j]] = Current(r.id)[ReadOrder[j]]
    /\ r.pc = "fill" => IsCurrent(r.detail, r.id)

NoneBehind == \A p \in Requests : CurrentSoFar(request[p])

LEMMA SectionRead == \A s \in Sections : \E j \in 1..14 : ReadOrder[j] = s
BY OrderIs DEF Sections

(* The details of the moment depend on the tables alone. *)
LEMMA CurrentStands ==
    ASSUME UNCHANGED <<rows, reference, deleted>>, NEW r
    PROVE  CurrentSoFar(r)' <=> CurrentSoFar(r)
BY DEF CurrentSoFar, IsCurrent, Current, Look

LEMMA FreshStands ==
    ASSUME UNCHANGED <<rows, reference, deleted>>, NEW a
    PROVE  Fresh(a)' <=> (cache'[a] = Nil \/ IsCurrent(cache'[a], a))
BY DEF Fresh, IsCurrent, Current, Look

(* A step of one request. *)
LEMMA NoneFallsBehind ==
    ASSUME Inv, NoneBehind, UNCHANGED <<rows, reference, deleted>>,
           NEW p \in Requests, NEW r, CurrentSoFar(r),
           request' = [request EXCEPT ![p] = r]
    PROVE  NoneBehind'
<1> SUFFICES ASSUME NEW q \in Requests PROVE CurrentSoFar(request[q])'
  BY DEF NoneBehind
<1>1. request'[q] = r \/ request'[q] = request[q]
  BY DEF Inv, TypeOK
<1>2. PICK t : t = request'[q]
  OBVIOUS
<1>3. CurrentSoFar(t)
  BY <1>1, <1>2 DEF NoneBehind
<1>4. CurrentSoFar(t)'
  BY <1>3, CurrentStands
<1> QED
  BY <1>2, <1>4 DEF CurrentSoFar

(* With what stands above it read as it is, and the reference the row names,
   each section is found as findById would find it at once. *)
LEMMA LookNow ==
    ASSUME Inv, NEW a \in Approvals, NEW d \in Detail, NEW ref, NEW s \in Sections,
           \A t \in Sections : Before(t, s) => d[t] = Current(a)[t],
           s # "approval" => ref = reference[a]
    PROVE  Look(a, s, d, ref) = Current(a)[s]
<1>1. rows[a] \in Detail
  BY DEF Inv, TypeOK
<1>2. \A t \in Plain : Current(a)[t] = rows[a][t]
  <2> SUFFICES ASSUME NEW t \in Plain PROVE Current(a)[t] = rows[a][t]
    OBVIOUS
  <2>1. Look(a, t, rows[a], reference[a]) = rows[a][t]
    BY <1>1, LookPlain
  <2> QED
    BY <2>1 DEF Current, Plain
<1>3. CASE s \in Plain
  <2>1. s \in DOMAIN ParentOf => d[ParentOf[s]] = rows[a][ParentOf[s]]
    <3> SUFFICES ASSUME s \in DOMAIN ParentOf
                 PROVE  d[ParentOf[s]] = rows[a][ParentOf[s]]
      OBVIOUS
    <3>1. PICK t : t = ParentOf[s]
      OBVIOUS
    <3>2. Before(t, s) /\ t \in Plain /\ t \in Sections
      BY <3>1, PlainSections, ParentsBefore DEF Plain
    <3> QED
      BY <1>2, <3>1, <3>2
  <2>2. Look(a, s, d, ref) = rows[a][s]
    BY <1>3, <2>1, LookPlain
  <2> QED
    BY <1>2, <1>3, <2>2
<1>4. CASE s = "clothing"
  <2>1. d["staff"] = rows[a]["staff"]
    BY <1>2, <1>4, PlainSections, ParentsBefore, OrderIs
  <2>2. Current(a)[s] = Look(a, s, rows[a], reference[a])
    BY DEF Current
  <2> QED
    BY <1>4, <2>1, <2>2 DEF Look, ParentOf
<1>5. CASE s = "reference"
  <2>1. Current(a)[s] = Look(a, s, rows[a], reference[a])
    BY DEF Current
  <2> QED
    BY <1>5, <2>1 DEF Look, ParentOf
<1> QED
  BY <1>3, <1>5, <1>4 DEF Plain

LEMMA IdleSoFar == CurrentSoFar(Idle)
BY DEF CurrentSoFar, Idle

LEMMA AnsweredSoFar ==
    ASSUME NEW r \in Request
    PROVE  CurrentSoFar(Answered(r))
<1>1. CASE r.op = "read"
  BY <1>1, IdleSoFar DEF Answered
<1>2. CASE r.op # "read"
  <2>1. Answered(r).pc = "write"
    BY <1>2 DEF Answered, Request
  <2> QED
    BY <2>1 DEF CurrentSoFar
<1> QED
  BY <1>1, <1>2

LEMMA ReadNow ==
    ASSUME Inv, NoneBehind, NEW p \in Requests, Read(p)
    PROVE  NoneBehind'
<1> DEFINE a == request[p].id
           old == request[p].detail
<1>1. PICK i \in 1..14 :
          /\ request[p].todo = Rest(i)
          /\ i # 1 => a \notin deleted /\ request[p].ref = reference[a]
          /\ \A j \in 1..(i-1) : old[ReadOrder[j]] = Current(a)[ReadOrder[j]]
  BY DEF Read, NoneBehind, CurrentSoFar
<1> DEFINE s == ReadOrder[i]
           v == Look(a, s, old, request[p].ref)
           r == [request[p] EXCEPT
                    !.detail[s] = Look(request[p].id, s, request[p].detail, request[p].ref),
                    !.ref = IF s = "approval" THEN reference[request[p].id] ELSE @,
                    !.todo = Tail(Rest(i)),
                    !.pc = IF Tail(Rest(i)) = <<>> THEN "fill" ELSE "reading"]
<1>2. Head(request[p].todo) = s /\ s \in Sections
  BY <1>1, RestIs
<1>3. request' = [request EXCEPT ![p] = r]
  <2> HIDE DEF s
  <2> QED
    BY <1>1, <1>2 DEF Read, Become
<1>4. /\ request[p] \in Request /\ a \in Approvals /\ old \in Detail
      /\ request[p].ref \in Approvals \cup {Nil} /\ request[p].pc = "reading"
  BY DEF Read, Inv, TypeOK, Reads, Request
<1>5. s = "approval" <=> i = 1
  <2>1. ReadOrder[1] = "approval" /\ 1 \in 1..14
    BY DEF ReadOrder
  <2>2. i # 1 => ReadOrder[i] # ReadOrder[1]
    BY <2>1, OrderInjective
  <2> QED
    BY <2>1, <2>2
<1>6. a \notin deleted
  BY <1>1, <1>2, <1>5 DEF Read
<1>7. /\ r.detail = [old EXCEPT ![s] = v]
      /\ r.id = a /\ r.todo = Tail(Rest(i))
      /\ r.ref = (IF s = "approval" THEN reference[a] ELSE request[p].ref)
      /\ r.pc = IF Tail(Rest(i)) = <<>> THEN "fill" ELSE "reading"
  BY <1>4 DEF Request
<1>8. r.ref = reference[a]
  BY <1>1, <1>5, <1>7
<1>9. v = Current(a)[s]
  <2>1. ASSUME NEW t \in Sections, Before(t, s) PROVE old[t] = Current(a)[t]
    <3>1. PICK j \in 1..14 : ReadOrder[j] = t
      BY SectionRead
    <3>2. j \notin i..14
      BY <2>1, <3>1 DEF Before
    <3>3. j \in 1..(i-1)
      BY <3>2
    <3> QED
      BY <1>1, <3>1, <3>3
  <2>2. s # "approval" => request[p].ref = reference[a]
    BY <1>1, <1>5
  <2> HIDE DEF s, a, old
  <2> QED
    BY <1>2, <1>4, <2>1, <2>2, LookNow
<1>10. \A j \in 1..i : r.detail[ReadOrder[j]] = Current(a)[ReadOrder[j]]
  <2> HIDE DEF r, v
  <2> SUFFICES ASSUME NEW j \in 1..i
               PROVE  r.detail[ReadOrder[j]] = Current(a)[ReadOrder[j]]
    OBVIOUS
  <2>1. CASE j = i
    BY <1>2, <1>4, <1>7, <1>9, <2>1 DEF Detail
  <2>2. CASE j # i
    <3>1. j \in 1..(i-1) /\ j \in 1..14
      BY <2>2
    <3>2. ReadOrder[j] # s
      BY <2>2, <3>1, OrderInjective
    <3> QED
      BY <1>1, <1>4, <1>7, <3>1, <3>2 DEF Detail
  <2> QED
    BY <2>1, <2>2
<1>11. /\ i = 14 => Tail(Rest(i)) = <<>>
       /\ Tail(Rest(i)) # <<>> => i + 1 \in 1..14 /\ Tail(Rest(i)) = Rest(i + 1)
  BY RestIs, RestTail
<1>12. r.detail \in Detail
  <2>1. v \in Rows
    BY <1>2, <1>4, LookType
  <2> HIDE DEF r, v, s
  <2> QED
    BY <1>2, <1>4, <1>7, <2>1 DEF Detail
<1> HIDE DEF r, v, s
<1>13. CurrentSoFar(r)
  <2>1. CASE Tail(Rest(i)) # <<>>
    <3>1. r.pc = "reading" /\ r.todo = Rest(i + 1) /\ i + 1 \in 1..14
          /\ r.id \notin deleted /\ r.ref = reference[r.id]
      BY <1>6, <1>7, <1>8, <1>11, <2>1
    <3>2. \A j \in 1..((i + 1) - 1) :
              r.detail[ReadOrder[j]] = Current(r.id)[ReadOrder[j]]
      BY <1>7, <1>10
    <3> QED
      BY <3>1, <3>2 DEF CurrentSoFar
  <2>2. CASE Tail(Rest(i)) = <<>>
    <3>1. i = 14
      <4>1. i # 14 => Tail(Rest(i)) # <<>>
        BY RestIs, Zenon
      <4> QED
        BY <2>2, <4>1
    <3>2. \A t \in Sections : r.detail[t] = Current(a)[t]
      BY <1>10, <3>1, SectionRead
    <3>3. r.detail = [t \in Sections |-> r.detail[t]]
      BY <1>12 DEF Detail
    <3>4. Current(a) = [t \in Sections |-> Current(a)[t]]
      BY DEF Current
    <3>5. r.detail = Current(a)
      BY <3>2, <3>3, <3>4
    <3> QED
      BY <1>6, <1>7, <2>2, <3>5 DEF CurrentSoFar, IsCurrent
  <2> QED
    BY <2>1, <2>2
<1>14. UNCHANGED <<rows, reference, deleted>>
  BY DEF Read
<1> QED
  BY <1>3, <1>13, <1>14, NoneFallsBehind

(* What is left to do while nothing is written. *)
LEMMA OnlyReads ==
    ASSUME Inv, NoneBehind, [Next]_vars, UNCHANGED writes
    PROVE  \/ UNCHANGED vars
           \/ \E p \in Requests, op \in Ops, a \in Approvals, edit \in SUBSET Parts :
                  Arrive(p, op, a, edit)
           \/ \E p \in Requests :
                  Hit(p) \/ Miss(p) \/ NotFound(p) \/ Read(p) \/ Fill(p) \/ Abort(p)
           \/ \E a \in Approvals : Expire(a)
<1>1. writes' # writes + 1
  BY DEF Inv, TypeOK
<1>2. ASSUME NEW p \in Requests, Proceed(p)
      PROVE  Hit(p) \/ Miss(p) \/ NotFound(p) \/ Read(p) \/ Fill(p)
  <2>1. ~ Invalidate(p) /\ ~ CacheCopy(p)
    BY DEF NoneBehind, CurrentSoFar, Invalidate, CacheCopy
  <2>2. \A op : ~ Writes(p, op)
    BY <1>1 DEF Writes
  <2> QED
    BY <1>2, <2>1, <2>2
    DEF Proceed, Update, UpdateStatus, Cancel, UpdateDates, SoftDelete, Decide, Duplicate
<1>3. \A a \in Approvals : /\ ~ CopyReportDate(a) /\ ~ EnterClaim(a)
                         /\ \A all \in BOOLEAN : ~ CancelClaims(a, all)
                         /\ \A ref : ~ Create(a, ref)
  <2>1. \A a, claims : ~ WriteClaims(a, claims)
    BY <1>1 DEF WriteClaims
  <2> QED
    BY <1>1, <2>1 DEF CopyReportDate, EnterClaim, CancelClaims, Create
<1>4. ASSUME NEW p \in Requests, NEW op \in Ops, NEW a \in Approvals,
             IF op = "update" THEN \E edit \in Edits : Arrive(p, op, a, edit)
                              ELSE Arrive(p, op, a, {})
      PROVE  \E edit \in SUBSET Parts : Arrive(p, op, a, edit)
  BY <1>4, DetailsAssumption
<1> QED
  BY <1>2, <1>3, <1>4 DEF Next

(* Reading leaves the tables alone and keeps what is read current. *)
LEMMA NoneBehindStep ==
    ASSUME Inv, NoneBehind, [Next]_vars, UNCHANGED writes
    PROVE  UNCHANGED <<rows, reference, deleted>> /\ NoneBehind'
<1>1. CASE UNCHANGED vars
  <2>1. UNCHANGED <<rows, reference, deleted, request>>
    BY <1>1 DEF vars
  <2>2. ASSUME NEW q \in Requests PROVE CurrentSoFar(request[q])'
    <3>1. PICK t : t = request[q]
      OBVIOUS
    <3>2. CurrentSoFar(t)'
      BY <2>1, <3>1, CurrentStands DEF NoneBehind
    <3> QED
      BY <2>1, <3>1, <3>2 DEF CurrentSoFar
  <2> QED
    BY <2>1, <2>2 DEF NoneBehind
<1>2. ASSUME NEW p \in Requests, NEW op \in Ops, NEW a \in Approvals,
             NEW edit \in SUBSET Parts, Arrive(p, op, a, edit)
      PROVE  UNCHANGED <<rows, reference, deleted>> /\ NoneBehind'
  <2> DEFINE r == [Idle EXCEPT !.pc = IF op = "decide" THEN "write" ELSE "lookup",
                               !.op = op, !.id = a, !.edit = edit]
  <2>1. r.pc \in {"write", "lookup"}
    BY DEF Idle
  <2>2. request' = [request EXCEPT ![p] = r] /\ UNCHANGED <<rows, reference, deleted>>
    BY <1>2 DEF Arrive, Become
  <2> HIDE DEF r
  <2>3. CurrentSoFar(r)
    BY <2>1 DEF CurrentSoFar
  <2> QED
    BY <2>2, <2>3, NoneFallsBehind
<1>3. ASSUME NEW p \in Requests, Hit(p)
      PROVE  UNCHANGED <<rows, reference, deleted>> /\ NoneBehind'
  <2> DEFINE r == [request[p] EXCEPT !.detail = cache[request[p].id]]
  <2>1. request[p].id \in Approvals /\ request[p] \in Request
    BY <1>3 DEF Hit, Inv, TypeOK, Reads
  <2>2. r \in Request
    BY <1>3, <2>1 DEF Hit, Inv, TypeOK, Request
  <2>3. request' = [request EXCEPT ![p] = Answered(r)]
    BY <1>3 DEF Hit, Become
  <2> HIDE DEF r
  <2>4. CurrentSoFar(Answered(r)) /\ UNCHANGED <<rows, reference, deleted>>
    BY <1>3, <2>2, AnsweredSoFar DEF Hit
  <2> QED
    BY <2>3, <2>4, NoneFallsBehind
<1>4. ASSUME NEW p \in Requests, Miss(p)
      PROVE  UNCHANGED <<rows, reference, deleted>> /\ NoneBehind'
  <2> DEFINE r == [request[p] EXCEPT !.pc = "reading", !.todo = ReadOrder]
  <2>1. request[p] \in Request
    BY DEF Inv, TypeOK
  <2>2. r.pc = "reading" /\ r.todo = Rest(1)
    BY <2>1, RestIs DEF Request
  <2>3. request' = [request EXCEPT ![p] = r] /\ UNCHANGED <<rows, reference, deleted>>
    BY <1>4 DEF Miss, Become
  <2> HIDE DEF r
  <2>4. CurrentSoFar(r)
    BY <2>2 DEF CurrentSoFar
  <2> QED
    BY <2>3, <2>4, NoneFallsBehind
<1>5. ASSUME NEW p \in Requests, NotFound(p) \/ Abort(p)
      PROVE  UNCHANGED <<rows, reference, deleted>> /\ NoneBehind'
  <2>1. request' = [request EXCEPT ![p] = Idle] /\ UNCHANGED <<rows, reference, deleted>>
    BY <1>5 DEF NotFound, Abort, Become
  <2> QED
    BY <2>1, IdleSoFar, NoneFallsBehind
<1>6. ASSUME NEW p \in Requests, Fill(p)
      PROVE  UNCHANGED <<rows, reference, deleted>> /\ NoneBehind'
  <2>1. request[p] \in Request
    BY DEF Inv, TypeOK
  <2>2. /\ request' = [request EXCEPT ![p] = Answered(request[p])]
        /\ UNCHANGED <<rows, reference, deleted>>
    BY <1>6 DEF Fill, Become
  <2>3. PICK r : r = Answered(request[p])
    OBVIOUS
  <2>4. CurrentSoFar(r)
    BY <2>1, <2>3, AnsweredSoFar
  <2> QED
    BY <2>2, <2>3, <2>4, NoneFallsBehind
<1>7. ASSUME NEW p \in Requests, Read(p)
      PROVE  UNCHANGED <<rows, reference, deleted>> /\ NoneBehind'
  BY <1>7, ReadNow DEF Read
<1>8. ASSUME NEW a \in Approvals, Expire(a)
      PROVE  UNCHANGED <<rows, reference, deleted>> /\ NoneBehind'
  <2>1. UNCHANGED <<rows, reference, deleted, request>>
    BY <1>8 DEF Expire
  <2>2. ASSUME NEW q \in Requests PROVE CurrentSoFar(request[q])'
    <3>1. PICK t : t = request[q]
      OBVIOUS
    <3>2. CurrentSoFar(t)'
      BY <2>1, <3>1, CurrentStands DEF NoneBehind
    <3> QED
      BY <2>1, <3>1, <3>2 DEF CurrentSoFar
  <2> QED
    BY <2>1, <2>2 DEF NoneBehind
<1> QED
  BY <1>1, <1>2, <1>3, <1>4, <1>5, <1>6, <1>7, <1>8, OnlyReads

(* What enters the cache meanwhile is current. *)
LEMMA FreshStep ==
    ASSUME Inv, NoneBehind, [Next]_vars, UNCHANGED writes,
           NEW a \in Approvals, Fresh(a)
    PROVE  Fresh(a)'
<1>1. UNCHANGED <<rows, reference, deleted>>
  BY NoneBehindStep
<1>2. \/ cache'[a] = cache[a]
      \/ cache'[a] = Nil
      \/ \E p \in Requests : Fill(p) /\ request[p].id = a
                             /\ cache'[a] = request[p].detail
  <2>1. \A p \in Requests : Fill(p) =>
            cache'[a] = IF request[p].id = a THEN request[p].detail ELSE cache[a]
    BY DEF Fill, Inv, TypeOK
  <2>2. \A b \in Approvals : Expire(b) => cache'[a] \in {Nil, cache[a]}
    BY DEF Expire, Inv, TypeOK
  <2> QED
    BY <2>1, <2>2, OnlyReads DEF vars, Arrive, Hit, Miss, NotFound, Read, Abort
<1>3. ASSUME NEW p \in Requests, Fill(p), request[p].id = a,
             cache'[a] = request[p].detail
      PROVE  IsCurrent(cache'[a], a)
  BY <1>3 DEF Fill, NoneBehind, CurrentSoFar
<1>4. cache'[a] = Nil \/ IsCurrent(cache'[a], a)
  BY <1>2, <1>3 DEF Fresh
<1> QED
  BY <1>1, <1>4, FreshStands

(* From any moment at which no request is in flight, and for as long as
   nothing is written: once the cached detail of an approval has expired, only
   current details of it are cached, however many requests read it together
   and wherever they fail.  With the expiry itself, which is a matter of
   fairness, this is EventuallyCurrent. *)
THEOREM ReadsSettle ==
    ASSUME NEW a \in Approvals
    PROVE  Spec => [](Quiet /\ [][UNCHANGED writes]_vars => [](Fresh(a) => []Fresh(a)))
<1>1. Inv /\ Quiet => NoneBehind
  BY DEF Quiet, NoneBehind, CurrentSoFar
<1>2. Inv /\ NoneBehind /\ [Next]_vars /\ [UNCHANGED writes]_vars => NoneBehind'
  <2>1. UNCHANGED vars => UNCHANGED writes
    BY DEF vars
  <2> QED
    BY <2>1, NoneBehindStep
<1>3. Inv /\ NoneBehind /\ Fresh(a) /\ [Next]_vars /\ [UNCHANGED writes]_vars => Fresh(a)'
  <2>1. UNCHANGED vars => UNCHANGED writes
    BY DEF vars
  <2> QED
    BY <2>1, FreshStep
<1> QED
  BY <1>1, <1>2, <1>3, Invariance, PTL DEF Spec
=============================================================================

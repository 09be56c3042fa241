------------------------ MODULE ConnectionPoolProofs ------------------------
(***************************************************************************)
(* Proofs about ConnectionPool, for any number of requests, any size of    *)
(* the pool and any width of the digits: types and the size of the pool;   *)
(* that the numbers of approvals have no gap and repeat only where two     *)
(* requests overlap or the digits run out, as NumberLedger has it; what    *)
(* the text order does to numbers; who loses connections, when handlers    *)
(* cannot wait for one another in a circle, and how soon they end.         *)
(***************************************************************************)
EXTENDS ConnectionPool, FiniteSetTheorems, SequenceTheorems, WellFoundedInduction, TLAPS

Request == [op : DOMAIN Script \cup {Nil}, at : 1..5, lent : BOOLEAN,
            open : BOOLEAN, month : Nat \ {0}, number : Numbers, read : Nat]
Approval == [month : Nat \ {0}, number : Numbers, read : Nat]

Lent == {r \in Requests : request[r].lent}
Open == {r \in Requests : request[r].open}

(* A request whose number is still to be read, for all of its handler. *)
Unread(op, at) == (op = "create" /\ at = 1) \/ (op = "copy" /\ at <= 3)

(* What a request knows of the approvals of its month: its number follows
   those that were there when it read, the one before it is there, and those
   that were there had other numbers. *)
Numbered(q) ==
    /\ q.month <= month
    /\ q.number \in Numbering!NextNumbers(Numbering!Taken(q.month, q.read))
    /\ q.number = 1 \/ q.number - 1 \in NumbersOf(q.month)
    /\ q.read <= Len(approvals)
    /\ \A i \in 1..q.read :
          approvals[i].month = q.month /\ approvals[i].number = q.number => q.number = Wide

Ready(q) ==
    /\ q \in Request
    /\ IF q.op = Nil THEN ~q.lent /\ ~q.open ELSE q.at <= Len(Script[q.op])
    /\ Unread(q.op, q.at) => q.number = 1 /\ q.read = 0
    /\ Numbered(q)

(* Each row still has, before it, the rows that its number follows. *)
RowsFollow ==
    \A i \in DOMAIN approvals :
        /\ approvals[i].read < i
        /\ approvals[i].number
              \in Numbering!NextNumbers(Numbering!Taken(approvals[i].month, approvals[i].read))

Inv ==
    /\ request \in [Requests -> Request]
    /\ \A r \in Requests : Ready(request[r])
    /\ leaked \in Nat
    /\ Used <= MaxConnections
    /\ approvals \in Seq(Approval)
    /\ month \in Nat \ {0}
    /\ NumbersWithoutGaps
    /\ RepeatsOverlap
    /\ RowsFollow

-----------------------------------------------------------------------------
(* Handlers *)

LEMMA ScriptFacts ==
    /\ Nil \notin DOMAIN Script
    /\ \A op \in DOMAIN Script :
          /\ Len(Script[op]) \in 1..5
          /\ \A k \in 1..Len(Script[op]) :
                Script[op][k] = "number" <=> (op = "create" /\ k = 1) \/ (op = "copy" /\ k = 3)
<1>1. DOMAIN Script = {"read", "create", "update", "status", "decide", "write", "copy"}
  BY DEF Script
<1>2. /\ Script["read"] = <<"query">>
      /\ Script["create"] = <<"number", "query", "insert", "insertAgain", "query">>
      /\ Script["update"] = <<"query", "begin", "query", "commit", "query">>
      /\ Script["status"] = <<"query", "begin", "query", "commit">>
      /\ Script["decide"] = <<"query", "begin", "query", "commit">>
      /\ Script["write"] = <<"query", "begin", "commit">>
      /\ Script["copy"] = <<"query", "begin", "number", "query", "commit">>
  BY DEF Script
<1> SUFFICES ASSUME NEW op \in DOMAIN Script
             PROVE  /\ Len(Script[op]) \in 1..5
                    /\ \A k \in 1..Len(Script[op]) :
                          Script[op][k] = "number" <=> (op = "create" /\ k = 1) \/ (op = "copy" /\ k = 3)
  BY <1>1, PoolAssumption
<1>3. CASE op = "read"
  BY <1>2, <1>3
<1>4. CASE op = "create"
  BY <1>2, <1>4
<1>5. CASE op = "update"
  BY <1>2, <1>5
<1>6. CASE op = "status"
  BY <1>2, <1>6
<1>7. CASE op = "decide"
  BY <1>2, <1>7
<1>8. CASE op = "write"
  BY <1>2, <1>8
<1>9. CASE op = "copy"
  BY <1>2, <1>9
<1> QED BY <1>1, <1>3, <1>4, <1>5, <1>6, <1>7, <1>8, <1>9

(* The first number of a month, as far as someone knows who has not looked. *)
LEMMA FirstNumber == \A m : 1 \in Numbering!NextNumbers(Numbering!Taken(m, 0))
<1>1. \A m : Numbering!Taken(m, 0) = {}
  BY DEF Numbering!Taken
<1>2. 1 \in Numbering!NextNumbers({})
  BY DEF Numbering!NextNumbers
<1> QED BY <1>1, <1>2

LEMMA IdleReady ==
    ASSUME approvals \in Seq(Approval), month \in Nat \ {0}
    PROVE  Ready(Idle)
<1>1. Nil \notin DOMAIN Script /\ Nil # "create" /\ Nil # "copy"
  BY PoolAssumption, ScriptFacts
<1>2. Idle \in Request
  BY WideAssumption DEF Idle, Request, Numbers
<1>3. /\ Idle.op = Nil /\ Idle.number = 1 /\ Idle.read = 0 /\ Idle.month = 1
      /\ ~Idle.lent /\ ~Idle.open
  BY DEF Idle
<1>4. Numbered(Idle)
  BY <1>3, FirstNumber, LenProperties DEF Numbered
<1> QED BY <1>1, <1>2, <1>3, <1>4 DEF Ready, Unread

(* Where a handler that goes on comes to stand. *)
LEMMA GoesReady ==
    ASSUME approvals \in Seq(Approval), month \in Nat \ {0},
           NEW r \in Requests, NEW q \in Request, q.op # Nil, Numbered(q),
           NEW k \in Nat \ {0}, Unread(q.op, k) => q.number = 1 /\ q.read = 0,
           Goes(r, q, k)
    PROVE  \E p : /\ Ready(p) /\ request' = [request EXCEPT ![r] = p]
                  /\ p.lent => q.lent
                  /\ p.open => q.open
<1>1. CASE k > Len(Script[q.op])
  <2>1. request' = [request EXCEPT ![r] = Idle]
    BY <1>1 DEF Goes
  <2>2. ~Idle.lent /\ ~Idle.open
    BY DEF Idle
  <2> QED BY <2>1, <2>2, IdleReady
<1>2. CASE ~(k > Len(Script[q.op]))
  <2> DEFINE n == IF Script[q.op][k] = "number" THEN month ELSE q.month
             p == [q EXCEPT !.at = k, !.month = n]
  <2>1. request' = [request EXCEPT ![r] = p]
    BY <1>2 DEF Goes
  <2>2. q.op \in DOMAIN Script /\ Len(Script[q.op]) \in 1..5
    BY ScriptFacts DEF Request
  <2>3. k \in 1..Len(Script[q.op])
    BY <1>2, <2>2
  <2>4. n \in Nat \ {0} /\ k \in 1..5
    <3>1. q.month \in Nat \ {0}
      BY DEF Request
    <3>2. PICK len \in 1..5 : len = Len(Script[q.op])
      BY <2>2
    <3>3. k \in 1..len
      BY <2>3, <3>2
    <3>4. k \in 1..5
      BY <3>3
    <3> QED BY <3>1, <3>4
  <2> HIDE DEF n
  <2>5. /\ p \in Request /\ p.op = q.op /\ p.at = k /\ p.month = n /\ p.number = q.number
        /\ p.read = q.read /\ p.lent = q.lent /\ p.open = q.open
    BY <2>4 DEF Request
  <2>6. Script[q.op][k] = "number" => q.number = 1 /\ q.read = 0
    BY <2>2, <2>3, ScriptFacts DEF Unread
  <2>7. Numbered(p)
    <3>1. CASE Script[q.op][k] = "number"
      <4>1. p.month = month /\ p.number = 1 /\ p.read = 0
        BY <2>5, <2>6, <3>1 DEF n
      <4> HIDE DEF p
      <4> QED BY <4>1, FirstNumber, LenProperties DEF Numbered
    <3>2. CASE Script[q.op][k] # "number"
      <4>1. p.month = q.month
        BY <2>5, <3>2 DEF n
      <4> HIDE DEF p
      <4> QED BY <2>5, <4>1 DEF Numbered
    <3> QED BY <3>1, <3>2
  <2>8. Ready(p)
    BY <2>3, <2>5, <2>7, <2>2 DEF Ready
  <2> QED BY <2>1, <2>5, <2>8
<1> QED BY <1>1, <1>2

(* A request that goes on from where it stands has read its number, or still
   has none. *)
LEMMA UnreadLater ==
    ASSUME NEW op, NEW i \in Nat, NEW k \in Nat, i < k, Unread(op, k), i >= 1
    PROVE  Unread(op, i)
BY DEF Unread

-----------------------------------------------------------------------------
(* The pool *)

LEMMA UsedIs == /\ Used = Cardinality(Lent) + Cardinality(Open) + leaked
                /\ Used' = Cardinality(Lent') + Cardinality(Open') + leaked'
BY DEF Used, Lent, Open

LEMMA Borrowed ==
    ASSUME request \in [Requests -> Request]
    PROVE  /\ IsFiniteSet(Lent) /\ Cardinality(Lent) \in Nat
           /\ IsFiniteSet(Open) /\ Cardinality(Open) \in Nat
<1>1. Lent \in SUBSET Requests /\ Open \in SUBSET Requests
  BY DEF Lent, Open
<1> QED BY <1>1, PoolAssumption, FS_Subset, FS_CardinalityType

(* A request that gives back what it had, and perhaps leaks one. *)
LEMMA UsedShrinks ==
    ASSUME request \in [Requests -> Request], leaked \in Nat,
           NEW r \in Requests, NEW p \in Request, request' = [request EXCEPT ![r] = p],
           p.lent => request[r].lent, p.open => request[r].open,
           \/ leaked' = leaked
           \/ leaked' = leaked + 1 /\ request[r].open /\ ~p.open
    PROVE  Used' <= Used /\ leaked' \in Nat
<1>1. Lent' \in SUBSET Lent
  BY DEF Lent, Request
<1>2. Open' \in SUBSET Open
  BY DEF Open, Request
<1>3. /\ Cardinality(Lent') \in Nat /\ Cardinality(Lent') <= Cardinality(Lent)
      /\ Cardinality(Open') \in Nat /\ Cardinality(Open') <= Cardinality(Open)
  BY <1>1, <1>2, Borrowed, FS_Subset, FS_CardinalityType
<1>4. CASE leaked' = leaked
  BY <1>3, <1>4, Borrowed, UsedIs
<1>5. CASE leaked' = leaked + 1 /\ request[r].open /\ ~p.open
  <2>1. Open' \in SUBSET (Open \ {r}) /\ r \in Open
    BY <1>2, <1>5 DEF Open, Request
  <2>2. IsFiniteSet(Open \ {r}) /\ Cardinality(Open \ {r}) = Cardinality(Open) - 1
    BY <2>1, Borrowed, FS_RemoveElement
  <2>3. Cardinality(Open') <= Cardinality(Open) - 1
    BY <2>1, <2>2, FS_Subset
  <2> QED BY <1>3, <1>5, <2>3, Borrowed, UsedIs
<1> QED BY <1>4, <1>5

(* A request that is lent a connection has one more than before. *)
LEMMA UsedGrows ==
    ASSUME request \in [Requests -> Request], leaked \in Nat, leaked' = leaked,
           NEW r \in Requests, NEW p \in Request, request' = [request EXCEPT ![r] = p],
           (p.lent => request[r].lent) \/ (p.open => request[r].open)
    PROVE  Used' <= Used + 1
<1>1. ASSUME NEW S, NEW T, IsFiniteSet(S), T \subseteq S \cup {r}
      PROVE  Cardinality(T) \in Nat /\ Cardinality(T) <= Cardinality(S) + 1
  <2>1. IsFiniteSet(S \cup {r}) /\ Cardinality(S \cup {r}) <= Cardinality(S) + 1
    <3>1. Cardinality(S) \in Nat
      BY <1>1, FS_CardinalityType
    <3>2. IsFiniteSet(S \cup {r})
          /\ Cardinality(S \cup {r}) = IF r \in S THEN Cardinality(S) ELSE Cardinality(S) + 1
      BY <1>1, FS_AddElement
    <3> QED BY <3>1, <3>2
  <2>2. T \in SUBSET (S \cup {r})
    BY <1>1
  <2>3. IsFiniteSet(T) /\ Cardinality(T) <= Cardinality(S \cup {r})
    BY <2>1, <2>2, FS_Subset
  <2> QED BY <1>1, <2>1, <2>3, FS_CardinalityType
<1>2. Lent' \subseteq Lent \cup {r} /\ Open' \subseteq Open \cup {r}
  BY DEF Lent, Open, Request
<1>3. /\ Cardinality(Lent') \in Nat /\ Cardinality(Lent') <= Cardinality(Lent) + 1
      /\ Cardinality(Open') \in Nat /\ Cardinality(Open') <= Cardinality(Open) + 1
  BY <1>1, <1>2, Borrowed
<1>4. CASE p.lent => request[r].lent
  <2>1. Lent' \in SUBSET Lent
    BY <1>4 DEF Lent, Request
  <2>2. Cardinality(Lent') <= Cardinality(Lent)
    BY <2>1, Borrowed, FS_Subset
  <2> QED BY <1>3, <2>2, Borrowed, UsedIs
<1>5. CASE p.open => request[r].open
  <2>1. Open' \in SUBSET Open
    BY <1>5 DEF Open, Request
  <2>2. Cardinality(Open') <= Cardinality(Open)
    BY <2>1, Borrowed, FS_Subset
  <2> QED BY <1>3, <2>2, Borrowed, UsedIs
<1> QED BY <1>4, <1>5

-----------------------------------------------------------------------------
(* Numbers *)

(* What the query for the last number gives: the one after a number that is
   there, and one that is there only if it is Wide. *)
LEMMA NextNumberFacts ==
    ASSUME NEW S \in SUBSET Numbers, \A x \in S : x = 1 \/ x - 1 \in S, NEW n \in NextNumbers(S)
    PROVE  n \in Numbers /\ (n = 1 \/ n - 1 \in S) /\ (n \in S => n = Wide)
<1>1. CASE S = {}
  BY <1>1, WideAssumption DEF NextNumbers, Numbers
<1>2. CASE S # {}
  <2>1. PICK l \in S : n = (l % Wide) + 1 /\ \A m \in S \ {l} : SortsBefore(m, l)
    BY <1>2 DEF NextNumbers, Last
  <2>2. l \in 1..Wide /\ Wide \in Nat /\ Wide >= 2
    BY WideAssumption DEF Numbers
  <2>3. l # Wide
    <3> SUFFICES ASSUME l = Wide PROVE FALSE
      OBVIOUS
    <3>1. Wide - 1 \in S /\ Wide - 1 # Wide
      BY <2>2
    <3>2. Wide - 1 <= Wide \div 10
      BY <2>1, <3>1 DEF SortsBefore
    <3> QED BY <2>2, <3>2
  <2>4. n = l + 1
    BY <2>1, <2>2, <2>3
  <2>5. ASSUME n \in S, n # Wide PROVE FALSE
    <3>1. n < l
      BY <2>1, <2>2, <2>3, <2>4, <2>5 DEF SortsBefore
    <3> QED BY <2>2, <2>4, <3>1
  <2> QED BY <2>2, <2>3, <2>4, <2>5 DEF Numbers
<1> QED BY <1>1, <1>2

(* A row more leaves what requests know of the others. *)
LEMMA ReadyStays ==
    ASSUME approvals \in Seq(Approval), NEW row \in Approval,
           approvals' = approvals \/ approvals' = Append(approvals, row),
           month \in Nat, month' = month \/ month' = month + 1,
           NEW q, Ready(q)
    PROVE  Ready(q)'
<1> USE DEF Numbering!Taken
<1>3. q.month \in Nat /\ q.month <= month /\ q.month <= month'
  BY DEF Ready, Request, Numbered
<1>1. CASE approvals' = approvals
  BY <1>1, <1>3 DEF Ready, Numbered, NumbersOf, Numbering!NextNumbers
<1>2. CASE approvals' = Append(approvals, row)
  <2>1. /\ Len(approvals) \in Nat /\ DOMAIN approvals = 1..Len(approvals)
        /\ Len(approvals') = Len(approvals) + 1 /\ DOMAIN approvals' = 1..Len(approvals')
        /\ \A i \in 1..Len(approvals) : approvals'[i] = approvals[i]
    BY <1>2, AppendProperties, LenProperties
  <2>2. NumbersOf(q.month) \subseteq NumbersOf(q.month)'
    BY <2>1 DEF NumbersOf
  <2>3. q \in Request /\ q.read \in Nat
    BY DEF Ready, Request
  <2>5. q.read <= Len(approvals)
    BY DEF Ready, Numbered
  <2>6. Numbering!Taken(q.month, q.read)' = Numbering!Taken(q.month, q.read)
    BY <2>1, <2>3, <2>5
  <2>7. (q.number \in Numbering!NextNumbers(Numbering!Taken(q.month, q.read)))'
    BY <2>6 DEF Ready, Numbered, Numbering!NextNumbers
  <2>4. Numbered(q)'
    BY <1>3, <2>1, <2>2, <2>3, <2>7 DEF Ready, Numbered
  <2> QED BY <2>4 DEF Ready
<1> QED BY <1>1, <1>2

LEMMA RowAdded ==
    ASSUME Inv, NEW r \in Requests, approvals' = Append(approvals, Row(r))
    PROVE  /\ Row(r) \in Approval /\ approvals' \in Seq(Approval)
           /\ NumbersWithoutGaps' /\ RepeatsOverlap' /\ RowsFollow'
<1>1. /\ Row(r) \in Approval
      /\ Row(r).month = request[r].month /\ Row(r).number = request[r].number
      /\ Row(r).read = request[r].read /\ Numbered(request[r])
  BY DEF Inv, Ready, Request, Row, Approval
<1>2. PICK row \in Approval : row = Row(r)
  BY <1>1
<1>3. /\ Len(approvals) \in Nat /\ DOMAIN approvals = 1..Len(approvals)
      /\ approvals' \in Seq(Approval)
      /\ Len(approvals') = Len(approvals) + 1 /\ DOMAIN approvals' = 1..(Len(approvals) + 1)
      /\ \A i \in 1..Len(approvals) : approvals'[i] = approvals[i]
      /\ approvals'[Len(approvals) + 1] = row
  BY <1>2, AppendProperties, LenProperties DEF Inv
<1>4. \A m : NumbersOf(m) \subseteq NumbersOf(m)'
  BY <1>3 DEF NumbersOf
<1>5. NumbersWithoutGaps'
  <2> SUFFICES ASSUME NEW i \in DOMAIN approvals', approvals'[i].number # 1
               PROVE  approvals'[i].number - 1 \in NumbersOf(approvals[i].month)'
    BY DEF NumbersWithoutGaps
  <2>1. PICK m, n : m = approvals'[i].month /\ n = approvals'[i].number
    OBVIOUS
  <2>2. CASE i \in 1..Len(approvals)
    <3>1. n - 1 \in NumbersOf(m)
      BY <1>3, <2>1, <2>2 DEF Inv, NumbersWithoutGaps
    <3> QED BY <1>4, <2>1, <3>1
  <2>3. CASE i = Len(approvals) + 1
    <3>1. n - 1 \in NumbersOf(m)
      BY <1>1, <1>2, <1>3, <2>1, <2>3 DEF Numbered
    <3> QED BY <1>4, <2>1, <3>1
  <2> QED BY <1>3, <2>2, <2>3
<1>6. RepeatsOverlap'
  <2> SUFFICES ASSUME NEW i \in DOMAIN approvals', NEW j \in DOMAIN approvals', i < j,
                      approvals'[i].month = approvals'[j].month,
                      approvals'[i].number = approvals'[j].number
               PROVE  approvals'[j].read < i \/ approvals'[j].number = Wide
    BY DEF RepeatsOverlap
  <2>1. i \in 1..Len(approvals)
    BY <1>3
  <2>2. CASE j \in 1..Len(approvals)
    BY <1>3, <2>1, <2>2 DEF Inv, RepeatsOverlap
  <2>3. CASE j = Len(approvals) + 1
    <3>1. approvals'[i] = approvals[i] /\ approvals'[j] = row /\ row.read \in Nat
      BY <1>3, <2>1, <2>3 DEF Approval
    <3>2. CASE i \in 1..row.read
      BY <1>1, <1>2, <3>1, <3>2 DEF Numbered
    <3>3. CASE row.read < i
      BY <3>1, <3>3
    <3> QED BY <2>1, <3>1, <3>2, <3>3
  <2> QED BY <1>3, <2>2, <2>3
<1>7. RowsFollow'
  <2> SUFFICES ASSUME NEW i \in DOMAIN approvals'
               PROVE  (/\ approvals[i].read < i
                       /\ approvals[i].number \in
                            Numbering!NextNumbers(Numbering!Taken(approvals[i].month, approvals[i].read)))'
    BY DEF RowsFollow
  <2>1. PICK m, n, k : m = approvals'[i].month /\ n = approvals'[i].number /\ k = approvals'[i].read
    OBVIOUS
  <2>2. k \in Nat /\ k < i /\ k <= Len(approvals) /\ n \in Numbering!NextNumbers(Numbering!Taken(m, k))
    <3>1. CASE i \in 1..Len(approvals)
      <4>1. approvals[i] \in Approval
        BY <3>1, ElementOfSeq DEF Inv
      <4>2. k \in Nat
        BY <1>3, <2>1, <3>1, <4>1 DEF Approval
      <4> QED BY <1>3, <2>1, <3>1, <4>2 DEF Inv, RowsFollow
    <3>2. CASE i = Len(approvals) + 1
      <4>1. k \in Nat /\ row.read = k /\ row.month = m /\ row.number = n
        BY <1>3, <2>1, <3>2 DEF Approval
      <4> QED BY <1>1, <1>2, <1>3, <3>2, <4>1 DEF Numbered
    <3> QED BY <1>3, <3>1, <3>2
  <2>3. Numbering!Taken(m, k)' = Numbering!Taken(m, k)
    BY <1>3, <2>2 DEF Numbering!Taken
  <2>4. (n \in Numbering!NextNumbers(Numbering!Taken(m, k)))'
    BY <2>2, <2>3 DEF Numbering!NextNumbers
  <2> QED BY <2>1, <2>2, <2>4
<1> QED BY <1>1, <1>3, <1>5, <1>6, <1>7

-----------------------------------------------------------------------------
(* The invariant *)

(* The numbers of the ledger are those of the code. *)
LEMMA SameNumbers == \A S : Numbering!NextNumbers(S) = NextNumbers(S)
BY DEF Numbering!NextNumbers, NextNumbers, Numbering!Last, Last, Numbering!SortsBefore, SortsBefore

(* No row joins and the clock may go on. *)
LEMMA KnownStays ==
    ASSUME Inv, approvals' = approvals, month' = month \/ month' = month + 1
    PROVE  \A q : Ready(q) => Ready(q)'
<1>1. [month |-> 1, number |-> 1, read |-> 0] \in Approval
  BY WideAssumption DEF Approval, Numbers
<1> QED BY <1>1, ReadyStays DEF Inv

LEMMA InitInv == Init => Inv
<1> SUFFICES ASSUME Init PROVE Inv
  OBVIOUS
<1>1. PICK k \in 0..(Wide - 1) :
          approvals = [i \in 1..k |-> [month |-> 1, number |-> i, read |-> i - 1]]
  BY PoolAssumption DEF Init
<1>2. k \in Nat /\ \A i \in 1..k : i \in Numbers /\ i - 1 \in Nat
  BY WideAssumption DEF Numbers
<1>3. approvals \in Seq(Approval) /\ DOMAIN approvals = 1..k
  <2>1. approvals \in [1..k -> Approval]
    BY <1>1, <1>2 DEF Approval
  <2> QED BY <1>2, <2>1, SeqDef
<1>4. request \in [Requests -> Request] /\ \A r \in Requests : Ready(request[r])
  <2>1. Ready(Idle) /\ request = [r \in Requests |-> Idle]
    BY <1>3, IdleReady DEF Init
  <2> QED BY <2>1 DEF Ready
<1>5. leaked \in Nat /\ Used <= MaxConnections
  <2>1. Lent = {} /\ Open = {} /\ leaked = 0
    BY DEF Init, Lent, Open, Idle
  <2> QED BY <2>1, UsedIs, FS_EmptySet, PoolAssumption
<1>6. NumbersWithoutGaps
  <2> SUFFICES ASSUME NEW i \in 1..k, i # 1
               PROVE  i - 1 \in NumbersOf(1)
    BY <1>1, <1>3 DEF NumbersWithoutGaps
  <2>1. i - 1 \in 1..k
    BY <1>2
  <2> QED BY <1>1, <1>3, <2>1 DEF NumbersOf
<1>7. RepeatsOverlap
  BY <1>1, <1>3 DEF RepeatsOverlap
<1>8. RowsFollow
  <2> SUFFICES ASSUME NEW i \in 1..k
               PROVE  i - 1 < i /\ i \in Numbering!NextNumbers(Numbering!Taken(1, i - 1))
    BY <1>1, <1>3 DEF RowsFollow
  <2>1. i \in Nat \ {0} /\ i < Wide
    BY <1>2, WideAssumption, PoolAssumption DEF Init
  <2>2. Numbering!Taken(1, i - 1) = 1..(i - 1)
    <3>1. \A j \in 1..(i - 1) : approvals[j].month = 1 /\ approvals[j].number = j
      BY <1>1, <1>2, <2>1
    <3>2. {j \in 1..(i - 1) : approvals[j].month = 1} = 1..(i - 1)
      BY <3>1
    <3> QED BY <3>1, <3>2 DEF Numbering!Taken
  <2>3. CASE i = 1
    BY <2>2, <2>3, FirstNumber
  <2>4. CASE i # 1
    <3>1. i - 1 \in 1..(i - 1) /\ 1..(i - 1) # {}
      BY <2>1, <2>4
    <3>2. \A m \in 1..(i - 1) \ {i - 1} : SortsBefore(m, i - 1)
      BY <2>1, WideAssumption DEF SortsBefore
    <3>3. ((i - 1) % Wide) + 1 = i
      BY <2>1, <2>4, WideAssumption
    <3>4. i - 1 \in Last(1..(i - 1))
      BY <3>1, <3>2 DEF Last
    <3>5. i \in NextNumbers(1..(i - 1))
      BY <3>1, <3>3, <3>4 DEF NextNumbers
    <3> QED BY <2>2, <3>5, SameNumbers
  <2> QED BY <2>1, <2>3, <2>4
<1> QED BY <1>3, <1>4, <1>5, <1>6, <1>7, <1>8 DEF Inv, Init

LEMMA RowsStand == ASSUME RowsFollow, approvals' = approvals PROVE RowsFollow'
<1>1. \A m, k : Numbering!Taken(m, k)' = Numbering!Taken(m, k)
  BY DEF Numbering!Taken
<1>2. \A S : Numbering!NextNumbers(S)' = Numbering!NextNumbers(S)
  OBVIOUS
<1> QED BY <1>1, <1>2 DEF RowsFollow

(* A request moves, and perhaps adds its row. *)
LEMMA RequestMoves ==
    ASSUME Inv, NEW r \in Requests, NEW p, Ready(p), request' = [request EXCEPT ![r] = p],
           approvals' = approvals \/ approvals' = Append(approvals, Row(r)),
           month' = month, leaked' \in Nat, Used' <= MaxConnections
    PROVE  Inv'
<1>1. request' \in [Requests -> Request]
  BY DEF Inv, Ready
<1>2. Row(r) \in Approval
  BY DEF Inv, Ready, Request, Row, Approval
<1>3. \A q : Ready(q) => Ready(q)'
  BY <1>2, ReadyStays DEF Inv
<1>4. ASSUME NEW s \in Requests PROVE Ready(request[s])'
  <2>1. PICK q : q = request'[s] /\ Ready(q)
    BY DEF Inv
  <2>2. Ready(q)'
    BY <1>3, <2>1
  <2> QED BY <2>1, <2>2 DEF Ready, Numbered, NumbersOf
<1>5. approvals' \in Seq(Approval) /\ NumbersWithoutGaps' /\ RepeatsOverlap' /\ RowsFollow'
  <2>1. CASE approvals' = approvals
    BY <2>1, RowsStand DEF Inv, NumbersWithoutGaps, RepeatsOverlap, NumbersOf
  <2>2. CASE approvals' = Append(approvals, Row(r))
    BY <2>2, RowAdded
  <2> QED BY <2>1, <2>2
<1> QED BY <1>1, <1>4, <1>5 DEF Inv

(* Bounds are numbers. *)
LEMMA UsedType ==
    ASSUME Inv, request' \in [Requests -> Request], leaked' \in Nat
    PROVE  Used \in Nat /\ Used' \in Nat
<1>1. Lent' \in SUBSET Requests /\ Open' \in SUBSET Requests
  BY DEF Lent, Open
<1>2. Cardinality(Lent') \in Nat /\ Cardinality(Open') \in Nat
  BY <1>1, PoolAssumption, FS_Subset, FS_CardinalityType
<1> QED BY <1>2, UsedIs, Borrowed DEF Inv

LEMMA FailsInv ==
    ASSUME Inv, NEW r \in Requests, Fails(r)
    PROVE  Inv'
<1>1. Ready(Idle)
  BY IdleReady DEF Inv
<1>2. ~Idle.lent /\ ~Idle.open /\ Idle \in Request
  BY <1>1 DEF Idle, Ready
<1>3. request' = [request EXCEPT ![r] = Idle] /\ approvals' = approvals /\ month' = month
  BY DEF Fails
<1>4. leaked' = leaked \/ (leaked' = leaked + 1 /\ request[r].open /\ ~Idle.open)
  BY <1>2 DEF Fails, Inv
<1>5. Used' <= Used /\ leaked' \in Nat
  BY <1>2, <1>3, <1>4, UsedShrinks DEF Inv
<1>6. Used \in Nat /\ Used' \in Nat
  <2>1. request' \in [Requests -> Request]
    BY <1>2, <1>3 DEF Inv
  <2> QED BY <1>5, <2>1, UsedType
<1>7. Used' <= MaxConnections
  BY <1>5, <1>6, PoolAssumption DEF Inv
<1> QED BY <1>1, <1>3, <1>5, <1>7, RequestMoves

(* A handler goes on with no more connections than it had. *)
LEMMA GoesOn ==
    ASSUME Inv, NEW r \in Requests, NEW q \in Request, Numbered(q), q.op # Nil,
           q.lent => request[r].lent, q.open => request[r].open,
           NEW k \in Nat \ {0}, Unread(q.op, k) => q.number = 1 /\ q.read = 0,
           Goes(r, q, k), leaked' = leaked, month' = month,
           approvals' = approvals \/ approvals' = Append(approvals, Row(r))
    PROVE  Inv'
<1>1. PICK p : /\ Ready(p) /\ request' = [request EXCEPT ![r] = p]
               /\ p.lent => q.lent
               /\ p.open => q.open
  BY GoesReady DEF Inv
<1>2. p \in Request
  BY <1>1 DEF Ready
<1>3. Used' <= Used /\ leaked' \in Nat
  BY <1>1, <1>2, UsedShrinks DEF Inv
<1>4. Used \in Nat /\ Used' \in Nat
  <2>1. request' \in [Requests -> Request]
    BY <1>1, <1>2 DEF Inv
  <2> QED BY <1>3, <2>1, UsedType
<1>5. Used' <= MaxConnections
  BY <1>3, <1>4, PoolAssumption DEF Inv
<1> QED BY <1>1, <1>3, <1>5, RequestMoves

(* Where the requests stand. *)
LEMMA Standing ==
    ASSUME Inv, NEW r \in Requests, InFlight(r)
    PROVE  /\ request[r] \in Request /\ request[r].op \in DOMAIN Script /\ request[r].op # Nil
           /\ request[r].at \in 1..Len(Script[request[r].op])
           /\ Numbered(request[r])
           /\ \A k \in Nat \ {0} : request[r].at < k /\ Unread(request[r].op, k)
                                   => request[r].number = 1 /\ request[r].read = 0
           /\ Step(r) = "number" <=> Unread(request[r].op, request[r].at)
                                     /\ ~Unread(request[r].op, request[r].at + 1)
<1>1. /\ request[r] \in Request /\ request[r].op # Nil /\ Ready(request[r])
  BY DEF Inv, InFlight
<1>2. /\ request[r].op \in DOMAIN Script /\ request[r].at \in 1..5
      /\ request[r].at <= Len(Script[request[r].op])
  BY <1>1 DEF Ready, Request
<1>3. Len(Script[request[r].op]) \in 1..5
  BY <1>2, ScriptFacts
<1>4. request[r].at \in 1..Len(Script[request[r].op])
  BY <1>2, <1>3
<1>5. Step(r) = "number" <=> \/ request[r].op = "create" /\ request[r].at = 1
                             \/ request[r].op = "copy" /\ request[r].at = 3
  BY <1>2, <1>4, ScriptFacts DEF Step
<1>6. Step(r) = "number" <=> Unread(request[r].op, request[r].at)
                             /\ ~Unread(request[r].op, request[r].at + 1)
  BY <1>2, <1>5 DEF Unread
<1>7. ASSUME NEW k \in Nat \ {0}, request[r].at < k, Unread(request[r].op, k)
      PROVE  request[r].number = 1 /\ request[r].read = 0
  BY <1>1, <1>2, <1>7, UnreadLater DEF Ready
<1> QED BY <1>1, <1>2, <1>4, <1>6, <1>7 DEF Ready

(* A connection given back, a transaction ended. *)
LEMMA Less ==
    ASSUME NEW q \in Request, Numbered(q)
    PROVE  /\ [q EXCEPT !.lent = FALSE] \in Request /\ Numbered([q EXCEPT !.lent = FALSE])
           /\ [q EXCEPT !.open = FALSE] \in Request /\ Numbered([q EXCEPT !.open = FALSE])
BY DEF Request, Numbered

LEMMA ArriveInv ==
    ASSUME Inv, NEW r \in Requests, Arrive(r)
    PROVE  Inv'
<1>1. PICK op \in Ops : Goes(r, [Idle EXCEPT !.op = op], 1)
  BY DEF Arrive
<1> DEFINE q == [Idle EXCEPT !.op = op]
<1>2. Ready(Idle)
  BY IdleReady DEF Inv
<1>3. op \in DOMAIN Script /\ op # Nil
  <2>1. op \in DOMAIN Script
    BY PoolAssumption DEF Script
  <2> QED BY <2>1, ScriptFacts
<1>4. /\ q \in Request /\ q.op = op /\ q.number = 1 /\ q.read = 0
      /\ ~q.lent /\ ~q.open /\ Numbered(q)
  BY <1>2, <1>3 DEF Idle, Request, Ready, Numbered
<1> HIDE DEF q
<1>5. Goes(r, q, 1) /\ leaked' = leaked /\ month' = month /\ approvals' = approvals
  BY <1>1 DEF Arrive, q
<1> QED BY <1>3, <1>4, <1>5, GoesOn

(* The pool lends what it has. *)
LEMMA GrantInv ==
    ASSUME Inv, NEW r \in Requests, Grant(r)
    PROVE  Inv'
<1>1. /\ Used < MaxConnections /\ InFlight(r)
      /\ leaked' = leaked /\ month' = month /\ approvals' = approvals
  BY DEF Grant, Lend, Waits
<1>2. request[r] \in Request /\ Ready(request[r])
  BY DEF Inv
<1>3. \E p : /\ Ready(p) /\ request' = [request EXCEPT ![r] = p]
             /\ (p.lent => request[r].lent) \/ (p.open => request[r].open)
  <2>1. CASE Step(r) = "begin"
    <3> DEFINE q == [request[r] EXCEPT !.open = TRUE]
    <3>1. /\ q \in Request /\ Numbered(q) /\ q.op = request[r].op /\ q.lent = request[r].lent
          /\ q.number = request[r].number /\ q.read = request[r].read
      BY <1>1, <1>2, Standing DEF Request, Numbered
    <3>2. Goes(r, q, request[r].at + 1)
      BY <2>1 DEF Grant, Lend
    <3> HIDE DEF q
    <3>3. request[r].at + 1 \in Nat \ {0} /\ request[r].at < request[r].at + 1
      BY <1>2 DEF Request
    <3>4. Unread(q.op, request[r].at + 1) => q.number = 1 /\ q.read = 0
      BY <1>1, <3>1, <3>3, Standing
    <3>5. q.op # Nil
      BY <1>1, <3>1 DEF InFlight
    <3>6. PICK p : /\ Ready(p) /\ request' = [request EXCEPT ![r] = p]
                   /\ p.lent => q.lent
      BY <3>1, <3>2, <3>3, <3>4, <3>5, GoesReady DEF Inv
    <3> QED BY <3>1, <3>6
  <2>2. CASE Step(r) # "begin"
    <3> DEFINE p == [request[r] EXCEPT !.lent = TRUE]
    <3>1. request' = [request EXCEPT ![r] = p]
      BY <2>2 DEF Grant, Lend
    <3>2. Ready(p) /\ p.open = request[r].open
      BY <1>1, <1>2 DEF Ready, Request, Numbered, InFlight
    <3> HIDE DEF p
    <3> QED BY <3>1, <3>2
  <2> QED BY <2>1, <2>2
<1>4. PICK p : /\ Ready(p) /\ request' = [request EXCEPT ![r] = p]
               /\ (p.lent => request[r].lent) \/ (p.open => request[r].open)
  BY <1>3
<1>5. p \in Request
  BY <1>4 DEF Ready
<1>6. Used' <= Used + 1
  BY <1>1, <1>4, <1>5, UsedGrows DEF Inv
<1>7. Used \in Nat /\ Used' \in Nat
  <2>1. request' \in [Requests -> Request] /\ leaked' \in Nat
    BY <1>1, <1>4, <1>5 DEF Inv
  <2> QED BY <2>1, UsedType
<1>8. Used' <= MaxConnections /\ leaked' \in Nat
  BY <1>1, <1>6, <1>7, PoolAssumption DEF Inv
<1> QED BY <1>1, <1>4, <1>8, RequestMoves

(* Statements that are answered. *)
LEMMA ProceedInv ==
    ASSUME Inv, NEW r \in Requests, Proceed(r)
    PROVE  Inv'
<1>1. CASE Refused(r)
  BY <1>1, FailsInv DEF Refused
<1> SUFFICES ASSUME ~Refused(r) PROVE Inv'
  BY <1>1
<1>2. InFlight(r)
  BY DEF Proceed, Query, ReadNumber, Insert, InsertUnanswered, Commit, Runs
<1>3. /\ request[r] \in Request /\ Numbered(request[r]) /\ request[r].op # Nil
      /\ request[r].at \in Nat \ {0}
      /\ \A k \in Nat \ {0} : request[r].at < k /\ Unread(request[r].op, k)
                              => request[r].number = 1 /\ request[r].read = 0
  BY <1>2, Standing DEF Request
<1>4. leaked' = leaked /\ month' = month
  BY DEF Proceed, Query, ReadNumber, Insert, InsertUnanswered, Commit
<1>5. ASSUME NEW q \in Request, Numbered(q), q.op = request[r].op,
             q.number = request[r].number, q.read = request[r].read,
             q.lent => request[r].lent, q.open => request[r].open,
             NEW k \in {1, 2}, Goes(r, q, request[r].at + k),
             approvals' = approvals \/ approvals' = Append(approvals, Row(r))
      PROVE  Inv'
  <2>1. request[r].at + k \in Nat \ {0} /\ request[r].at < request[r].at + k
    BY <1>3
  <2>2. Unread(q.op, request[r].at + k) => q.number = 1 /\ q.read = 0
    BY <1>3, <1>5, <2>1
  <2> QED BY <1>3, <1>4, <1>5, <2>1, <2>2, GoesOn
<1>6. /\ Returned(r) \in Request /\ Numbered(Returned(r)) /\ Returned(r).op = request[r].op
      /\ Returned(r).number = request[r].number /\ Returned(r).read = request[r].read
      /\ ~Returned(r).lent /\ Returned(r).open = request[r].open
  BY <1>3, Less DEF Returned, Request
<1>7. CASE Query(r)
  BY <1>5, <1>6, <1>7 DEF Query
<1>8. CASE Insert(r) \/ InsertUnanswered(r)
  <2>1. \E k \in {1, 2} : Goes(r, Returned(r), request[r].at + k)
    BY <1>8 DEF Insert, InsertUnanswered
  <2>2. approvals' = approvals \/ approvals' = Append(approvals, Row(r))
    BY <1>8 DEF Insert, InsertUnanswered
  <2> QED BY <1>5, <1>6, <2>1, <2>2
<1>9. CASE Commit(r)
  <2> DEFINE q == [request[r] EXCEPT !.open = FALSE]
  <2>1. /\ q \in Request /\ Numbered(q) /\ q.op = request[r].op /\ q.number = request[r].number
        /\ q.read = request[r].read /\ q.lent = request[r].lent /\ ~q.open
    BY <1>3, Less DEF Request
  <2>2. Goes(r, q, request[r].at + 1)
    BY <1>9 DEF Commit
  <2>3. approvals' = approvals \/ approvals' = Append(approvals, Row(r))
    BY <1>9 DEF Commit
  <2> HIDE DEF q
  <2> QED BY <1>5, <2>1, <2>2, <2>3
<1>10. CASE ReadNumber(r)
  <2>1. PICK n \in NextNumbers(NumbersOf(request[r].month)) :
            Goes(r, [Returned(r) EXCEPT !.number = n, !.read = Len(approvals)], request[r].at + 1)
    BY <1>10 DEF ReadNumber
  <2>2. /\ Len(approvals) \in Nat /\ DOMAIN approvals = 1..Len(approvals)
        /\ \A i \in 1..Len(approvals) : approvals[i] \in Approval
    BY LenProperties, ElementOfSeq DEF Inv
  <2> DEFINE S == NumbersOf(request[r].month)
  <2>3. S \in SUBSET Numbers
    BY <2>2 DEF NumbersOf, Approval
  <2>4. \A x \in S : x = 1 \/ x - 1 \in S
    BY <2>2 DEF Inv, NumbersWithoutGaps, NumbersOf
  <2>5. n \in Numbers /\ (n = 1 \/ n - 1 \in S) /\ (n \in S => n = Wide)
    <3> HIDE DEF S
    <3>1. n \in NextNumbers(S)
      BY DEF S
    <3> QED BY <2>3, <2>4, <3>1, NextNumberFacts
  <2> DEFINE q == [Returned(r) EXCEPT !.number = n, !.read = Len(approvals)]
  <2>6. /\ q \in Request /\ q.op = request[r].op /\ q.month = request[r].month
        /\ q.number = n /\ q.read = Len(approvals) /\ ~q.lent /\ q.open = request[r].open
    <3>1. Returned(r).month = request[r].month
      BY <1>3 DEF Returned, Request
    <3> HIDE DEF S
    <3> QED BY <1>6, <2>2, <2>5, <3>1 DEF Request
  <2>7. Goes(r, q, request[r].at + 1)
    BY <2>1
  <2> HIDE DEF q
  <2>8. Numbered(q)
    <3>1. \A i \in 1..q.read : approvals[i].month = q.month /\ approvals[i].number = q.number
                               => q.number \in S
      BY <2>2, <2>6 DEF NumbersOf
    <3>2. Numbering!Taken(q.month, q.read) = S /\ q.month <= month
      BY <1>3, <2>2, <2>6 DEF Numbering!Taken, NumbersOf, Numbered
    <3>3. q.number \in Numbering!NextNumbers(Numbering!Taken(q.month, q.read))
      <4> HIDE DEF S
      <4>1. n \in NextNumbers(S)
        BY DEF S
      <4> QED BY <2>6, <3>2, <4>1, SameNumbers
    <3> QED BY <2>2, <2>5, <2>6, <3>1, <3>2, <3>3 DEF Numbered
  <2>9. ~Unread(q.op, request[r].at + 1)
    BY <1>2, <1>10, <2>6, Standing DEF ReadNumber, Runs
  <2>10. request[r].at + 1 \in Nat \ {0} /\ approvals' = approvals
    BY <1>3, <1>10 DEF ReadNumber
  <2> QED BY <1>3, <1>4, <2>6, <2>7, <2>8, <2>9, <2>10, GoesOn
<1> QED BY <1>7, <1>8, <1>9, <1>10 DEF Proceed

LEMMA TimeOutInv ==
    ASSUME Inv, NEW r \in Requests, TimeOut(r)
    PROVE  Inv'
<1>1. CASE Step(r) # "insert"
  BY <1>1, FailsInv DEF TimeOut
<1>2. CASE Step(r) = "insert"
  <2>1. /\ InFlight(r) /\ Goes(r, request[r], request[r].at + 1)
        /\ leaked' = leaked /\ month' = month /\ approvals' = approvals
    BY <1>2 DEF TimeOut, Waits
  <2>2. /\ request[r] \in Request /\ Numbered(request[r]) /\ request[r].op # Nil
        /\ request[r].at + 1 \in Nat \ {0}
    BY <2>1, Standing DEF Request
  <2>3. request[r].at < request[r].at + 1
    BY <2>2 DEF Request
  <2>4. Unread(request[r].op, request[r].at + 1) => request[r].number = 1 /\ request[r].read = 0
    BY <2>1, <2>2, <2>3, Standing
  <2> QED BY <2>1, <2>2, <2>4, GoesOn
<1> QED BY <1>1, <1>2

LEMMA NextInv ==
    ASSUME Inv, [Next]_vars
    PROVE  Inv'
<1>1. CASE Restart
  <2>1. approvals' = approvals /\ month' = month /\ leaked' = 0
    BY <1>1 DEF Restart
  <2>2. Ready(Idle)
    BY IdleReady DEF Inv
  <2>3. Ready(Idle)' /\ Idle \in Request
    BY <2>1, <2>2, KnownStays DEF Ready, Idle
  <2>4. request' \in [Requests -> Request] /\ \A r \in Requests : Ready(request[r])'
    BY <1>1, <2>3 DEF Restart, Ready, Idle
  <2>5. Used' <= MaxConnections
    <3>1. Lent' = {} /\ Open' = {}
      BY <1>1 DEF Restart, Lent, Open, Idle
    <3> QED BY <2>1, <3>1, UsedIs, FS_EmptySet, PoolAssumption
  <2> QED BY <2>1, <2>4, <2>5, RowsStand DEF Inv, NumbersWithoutGaps, RepeatsOverlap, NumbersOf
<1>2. CASE NextMonth \/ UNCHANGED vars
  <2>1. request' = request /\ leaked' = leaked /\ approvals' = approvals
    BY <1>2 DEF NextMonth, vars
  <2>2. month' \in Nat \ {0} /\ (month' = month \/ month' = month + 1)
    BY <1>2 DEF NextMonth, vars, Inv
  <2>3. Used' = Used
    BY <2>1 DEF Used
  <2>4. \A r \in Requests : Ready(request[r])'
    <3> TAKE r \in Requests
    <3>1. PICK q : q = request[r] /\ Ready(q)
      BY DEF Inv
    <3>2. Ready(q)'
      BY <2>1, <2>2, <3>1, KnownStays
    <3> QED BY <2>1, <3>1, <3>2
  <2> QED BY <2>1, <2>2, <2>3, <2>4, RowsStand DEF Inv, NumbersWithoutGaps, RepeatsOverlap, NumbersOf
<1>3. ASSUME NEW r \in Requests, Arrive(r) \/ Grant(r) \/ TimeOut(r) \/ Proceed(r) PROVE Inv'
  BY <1>3, ArriveInv, GrantInv, TimeOutInv, ProceedInv
<1> QED BY <1>1, <1>2, <1>3 DEF Next

(* Types; and the pool is never overdrawn, with any number of requests on a
   pool of any size (pool.max). *)
THEOREM PoolTypeCorrect == Spec => []TypeOK
<1>1. Inv => TypeOK
  BY DEF Inv, TypeOK, Request, Approval
<1> QED BY <1>1, InitInv, NextInv, PTL DEF Spec

(* No number of a month is skipped, with any number of requests and any width
   of the digits (generateIncrementId). *)
THEOREM NoNumberSkipped == Spec => []NumbersWithoutGaps
<1>1. Inv => NumbersWithoutGaps
  BY DEF Inv
<1> QED BY <1>1, InitInv, NextInv, PTL DEF Spec

(* A number is only repeated by a request that read it before the other row
   was there, or past the last of the digits (generateIncrementId). *)
THEOREM RepeatsAreRaces == Spec => []RepeatsOverlap
<1>1. Inv => RepeatsOverlap
  BY DEF Inv
<1> QED BY <1>1, InitInv, NextInv, PTL DEF Spec

-----------------------------------------------------------------------------
(* The ledger of numbers *)

LEMMA RowIsIssued ==
    ASSUME Inv, NEW r \in Requests, approvals' = Append(approvals, Row(r)), month' = month
    PROVE  Numbering!Next
<1> DEFINE q == request[r]
<1>1. q \in Request /\ Numbered(q) /\ Len(approvals) \in Nat /\ month \in Nat
  BY LenProperties DEF Inv, Ready
<1>2. q.month \in 1..month /\ q.read \in 0..Len(approvals) /\ q.number \in Numbers
  BY <1>1 DEF Numbered, Request
<1>3. approvals' = Append(approvals, [month |-> q.month, number |-> q.number, read |-> q.read])
  BY DEF Row
<1>4. approvals' # approvals
  <2>1. Row(r) \in Approval
    BY <1>1 DEF Row, Request, Approval
  <2> QED BY <1>1, <2>1, AppendProperties DEF Inv
<1>5. q.number \in Numbering!Numbers
  BY <1>2 DEF Numbering!Numbers, Numbers
<1>6. Numbering!Issue(q.month, q.read)
  BY <1>1, <1>3, <1>4, <1>5 DEF Numbering!Issue, Numbered
<1> QED BY <1>2, <1>6 DEF Numbering!Next

LEMMA StepIsIssue ==
    ASSUME Inv, [Next]_vars
    PROVE  [Numbering!Next]_(Numbering!ledger)
<1>1. CASE NextMonth
  BY <1>1 DEF NextMonth, Numbering!Next, Numbering!NextMonth
<1>2. CASE Restart \/ UNCHANGED vars
  BY <1>2 DEF Restart, vars, Numbering!ledger
<1>3. ASSUME NEW r \in Requests, Arrive(r) \/ Grant(r) \/ TimeOut(r) \/ Proceed(r)
      PROVE  [Numbering!Next]_(Numbering!ledger)
  <2>1. month' = month
    BY <1>3 DEF Arrive, Grant, Lend, TimeOut, Fails, Proceed, Query, ReadNumber, Insert,
                InsertUnanswered, Commit, Refused
  <2>2. approvals' = approvals \/ approvals' = Append(approvals, Row(r))
    BY <1>3 DEF Arrive, Grant, Lend, TimeOut, Fails, Proceed, Query, ReadNumber, Insert,
                InsertUnanswered, Commit, Refused
  <2>3. CASE approvals' = approvals
    BY <2>1, <2>3 DEF Numbering!ledger
  <2>4. CASE approvals' = Append(approvals, Row(r))
    BY <2>1, <2>4, RowIsIssued
  <2> QED BY <2>2, <2>3, <2>4
<1> QED BY <1>1, <1>2, <1>3 DEF Next

(* Requests that number approvals, however they interleave, wait, repeat an
   insert, fail or die, only ever do what NumberLedger does: they issue a
   number that follows those of one state of the table (generateIncrementId,
   KnexService.create). *)
THEOREM PoolImplementsNumbering == Spec => ImplementsNumbering
<1>1. Init => Numbering!Init
  BY DEF Init, Numbering!Init
<1>2. Inv /\ [Next]_vars => [Numbering!Next]_(Numbering!ledger)
  BY StepIsIssue
<1> QED BY <1>1, <1>2, InitInv, NextInv, PTL DEF Spec, ImplementsNumbering, Numbering!Spec

-----------------------------------------------------------------------------
(* Counting *)

(* Every set of natural numbers has a least one: an inductive argument takes
   the least number for which its claim would fail. *)
LEMMA LeastNumber ==
    ASSUME NEW S \in SUBSET Nat, S # {}
    PROVE  \E m \in S : \A k \in S : m <= k
<1>1. PICK n \in S : TRUE
  OBVIOUS
<1> DEFINE B == 0..n
           T == {0..k : k \in S \cap B}
<1>2. IsFiniteSet(B)
  BY <1>1, FS_Interval
<1>3. T \subseteq SUBSET B /\ T # {}
  <2>1. n \in S \cap B
    BY <1>1
  <2> QED BY <2>1
<1>4. \E X \in T : \A Y \in T : <<Y, X>> \notin StrictSubsetOrdering(B)
  <2> HIDE DEF B, T
  <2>1. IsWellFoundedOn(StrictSubsetOrdering(B), SUBSET B)
    BY <1>2, FS_StrictSubsetOrderingWellFounded, FS_FiniteSubsetsOfFinite
  <2> QED BY <1>3, <2>1, WFMin
<1>5. PICK X \in T : \A Y \in T : <<Y, X>> \notin StrictSubsetOrdering(B)
  BY <1>4
<1>6. PICK m \in S \cap B : X = 0..m
  BY <1>5
<1>7. ASSUME NEW k \in S, k < m PROVE FALSE
  <2>1. k \in B /\ 0..k \in T /\ 0..k \subseteq 0..m
    BY <1>6, <1>7
  <2>2. m \in 0..m /\ m \notin 0..k
    BY <1>6, <1>7
  <2>3. 0..k # 0..m
    BY <2>2
  <2> QED BY <1>3, <1>5, <1>6, <2>1, <2>3 DEF StrictSubsetOrdering
<1> QED BY <1>6, <1>7

LEMMA GreatestNumber ==
    ASSUME NEW S \in SUBSET Nat, S # {}, NEW b \in Nat, \A k \in S : k <= b
    PROVE  \E m \in S : \A k \in S : k <= m
<1> DEFINE D == {b - k : k \in S}
<1>1. D \in SUBSET Nat /\ D # {}
  <2>1. \A k \in S : b - k \in Nat
    OBVIOUS
  <2> QED BY <2>1
<1>2. PICK d \in D : \A e \in D : d <= e
  <2> HIDE DEF D
  <2> QED BY <1>1, LeastNumber
<1>3. PICK m \in S : d = b - m
  BY <1>2
<1>4. ASSUME NEW k \in S PROVE k <= m
  BY <1>2, <1>3
<1> QED BY <1>4

(* The order of the texts has a last one in every set of numbers, and only
   one: the query with which generateIncrementId looks for the last number of
   a month always leads to exactly one next number. *)
THEOREM OneNextNumber == \A S \in SUBSET Numbers : \E n : NextNumbers(S) = {n}
<1> SUFFICES ASSUME NEW S \in SUBSET Numbers, S # {} PROVE \E l : Last(S) = {l}
  <2>1. \A l : {(n % Wide) + 1 : n \in {l}} = {(l % Wide) + 1}
    OBVIOUS
  <2> QED BY <2>1 DEF NextNumbers
<1>1. Wide \in Nat /\ Wide >= 2 /\ S \in SUBSET Nat /\ S \subseteq 1..Wide
  BY WideAssumption DEF Numbers
<1> USE DEF SortsBefore
<1>2. \A k, l \in Last(S) : k = l
  BY <1>1 DEF Last
<1>3. Last(S) # {}
  <2> DEFINE P == S \ {Wide}
  <2>1. CASE P = {}
    BY <2>1 DEF Last
  <2>2. CASE P # {}
    <3>1. PICK m \in P : \A k \in P : k <= m
      <4>1. P \in SUBSET Nat /\ \A k \in P : k <= Wide
        BY <1>1
      <4> HIDE DEF P
      <4> QED BY <1>1, <2>2, <4>1, GreatestNumber
    <3>2. CASE Wide \notin S \/ m > Wide \div 10
      BY <1>1, <3>1, <3>2 DEF Last
    <3>3. CASE Wide \in S /\ ~(m > Wide \div 10)
      <4>1. \A k \in P : k <= Wide \div 10
        BY <1>1, <3>1, <3>3
      <4> QED BY <1>1, <3>3, <4>1 DEF Last
    <3> QED BY <3>2, <3>3
  <2> QED BY <2>1, <2>2
<1> QED BY <1>2, <1>3

(* As long as the digits suffice the text order counts: the next number is
   one more than the greatest (generateIncrementId). *)
THEOREM PaddedTextCounts ==
    \A S \in SUBSET (1..(Wide - 1)) : NextNumbers(S) = NumericSuccessors(S)
<1> SUFFICES ASSUME NEW S \in SUBSET (1..(Wide - 1))
             PROVE  Last(S) = {k \in S : \A m \in S : m <= k}
  BY DEF NextNumbers, NumericSuccessors
<1>1. \A k, m \in S : SortsBefore(m, k) <=> m < k
  BY WideAssumption DEF SortsBefore
<1>2. ASSUME NEW k \in S
      PROVE  (\A m \in S \ {k} : SortsBefore(m, k)) <=> (\A m \in S : m <= k)
  BY <1>1, WideAssumption
<1> QED BY <1>2 DEF Last

(* A month whose digits have run out gives the same number to everyone from
   then on: "100000" is the last of five digits and never the last of the
   text order. *)
ExhaustedRepeats ==
    \A m : Wide \in NumbersOf(m) => NextNumbers(NumbersOf(m)) = {Wide}

THEOREM ExhaustedMonthRepeats == Spec => []ExhaustedRepeats
<1>1. ASSUME Inv, NEW m, Wide \in NumbersOf(m)
      PROVE  NextNumbers(NumbersOf(m)) = {Wide}
  <2> DEFINE S == NumbersOf(m)
  <2>1. \A i \in DOMAIN approvals : approvals[i] \in Approval
    BY <1>1, ElementOfSeq, LenProperties DEF Inv
  <2>2. S \in SUBSET (1..Wide) /\ Wide \in Nat /\ Wide >= 2
    BY <2>1, WideAssumption DEF NumbersOf, Approval, Numbers
  <2>3. \A x \in S : x = 1 \/ x - 1 \in S
    BY <1>1 DEF Inv, NumbersWithoutGaps, NumbersOf
  <2> HIDE DEF S
  <2>4. Wide \in S /\ Wide - 1 \in S
    BY <1>1, <2>2, <2>3 DEF S
  <2>5. Last(S) = {Wide - 1}
    <3>1. \A k \in S \ {Wide - 1} : SortsBefore(k, Wide - 1)
      BY <2>2 DEF SortsBefore
    <3>2. \A n \in S \ {Wide - 1} : ~SortsBefore(Wide - 1, n)
      BY <2>2 DEF SortsBefore
    <3> QED BY <2>4, <3>1, <3>2 DEF Last
  <2>6. ((Wide - 1) % Wide) + 1 = Wide
    BY <2>2
  <2> QED BY <2>4, <2>5, <2>6 DEF NextNumbers, S
<1>2. Inv => ExhaustedRepeats
  BY <1>1 DEF ExhaustedRepeats
<1> QED BY <1>2, InitInv, NextInv, PTL DEF Spec

(* The approvals of a month, none of which was numbered while another was on
   its way. *)
RowsOf(m) == {i \in DOMAIN approvals : approvals[i].month = m}
OneByOne(m) == \A i, j \in RowsOf(m) : i < j => i <= approvals[j].read

NumbersCount ==
    \A m : OneByOne(m) /\ Wide \notin NumbersOf(m) =>
        /\ \A i, j \in RowsOf(m) : i < j => approvals[i].number < approvals[j].number
        /\ NumbersOf(m) = 1..Cardinality(RowsOf(m))

(* A set of numbers without gaps has all up to its greatest. *)
LEMMA NoGapsToGreatest ==
    ASSUME NEW S \in SUBSET (Nat \ {0}), \A x \in S : x = 1 \/ x - 1 \in S, NEW g \in S,
           \A x \in S : x <= g
    PROVE  S = 1..g
<1> SUFFICES ASSUME 1..g \ S # {} PROVE FALSE
  <2>1. S \subseteq 1..g
    OBVIOUS
  <2> QED BY <2>1
<1> DEFINE D == {g - x : x \in 1..g \ S}
<1>1. D \in SUBSET Nat /\ D # {}
  <2>1. \A x \in 1..g \ S : g - x \in Nat
    OBVIOUS
  <2> QED BY <2>1
<1>2. PICK d \in D : \A e \in D : d <= e
  <2> HIDE DEF D
  <2> QED BY <1>1, LeastNumber
<1>3. PICK x \in 1..g \ S : d = g - x
  BY <1>2
<1>4. x + 1 \in S
  <2>1. x + 1 \in 1..g
    <3>1. x \in Nat /\ x >= 1 /\ x <= g /\ x # g /\ g \in Nat
      BY <1>3
    <3> QED BY <3>1
  <2>2. ASSUME x + 1 \notin S PROVE FALSE
    <3>1. g - (x + 1) \in D
      BY <2>1, <2>2
    <3>2. x \in Nat /\ g \in Nat
      BY <1>3
    <3>3. d <= g - (x + 1)
      BY <1>2, <3>1
    <3> QED BY <1>3, <3>2, <3>3
  <2> QED BY <2>2
<1> QED BY <1>3, <1>4

LEMMA CountsUp ==
    ASSUME Inv, NEW m, OneByOne(m), Wide \notin NumbersOf(m),
           NEW i \in RowsOf(m), NEW j \in RowsOf(m), i < j
    PROVE  approvals[i].number < approvals[j].number
<1>1. /\ DOMAIN approvals = 1..Len(approvals) /\ Len(approvals) \in Nat
      /\ \A k \in 1..Len(approvals) : approvals[k] \in Approval
  BY ElementOfSeq, LenProperties DEF Inv
<1>2. PICK read \in Nat : read = approvals[j].read
  BY <1>1 DEF RowsOf, Approval
<1>3. PICK S : S = Numbering!Taken(m, read)
  OBVIOUS
<1>4. i <= read /\ read < j /\ approvals[j].number \in Numbering!NextNumbers(S)
  BY <1>2, <1>3 DEF OneByOne, RowsOf, Inv, RowsFollow
<1>5. S \subseteq NumbersOf(m) /\ approvals[i].number \in S
  <2>1. i \in 1..Len(approvals) /\ j \in 1..Len(approvals) /\ approvals[i].month = m
    BY <1>1 DEF RowsOf
  <2>2. i \in 1..read /\ \A k \in 1..read : k \in 1..Len(approvals)
    BY <1>1, <1>4, <2>1
  <2> QED BY <1>1, <1>3, <2>1, <2>2 DEF Numbering!Taken, NumbersOf
<1>6. S \in SUBSET (1..(Wide - 1))
  <2>1. NumbersOf(m) \subseteq 1..Wide
    BY <1>1 DEF NumbersOf, Approval, Numbers
  <2>2. \A x \in 1..Wide : x # Wide => x \in 1..(Wide - 1)
    BY WideAssumption
  <2> QED BY <1>5, <2>1, <2>2
<1>7. approvals[j].number \in NumericSuccessors(S)
  BY <1>4, <1>6, SameNumbers, PaddedTextCounts
<1>8. PICK l \in S : approvals[j].number = (l % Wide) + 1 /\ \A k \in S : k <= l
  BY <1>5, <1>7 DEF NumericSuccessors
<1>9. l \in Nat /\ l % Wide = l
  BY <1>6, WideAssumption
<1>10. approvals[i].number \in Nat /\ approvals[i].number <= l
  <2>1. PICK n \in S : n = approvals[i].number
    BY <1>5
  <2>2. n \in Nat /\ n <= l
    BY <1>6, <1>8, WideAssumption
  <2> QED BY <2>1, <2>2
<1> QED BY <1>8, <1>9, <1>10

(* Where approvals of a month are created and copied one by one, their numbers
   count them: the n-th to be stored is number n, whatever failed, was
   repeated, timed out or went on in other months meanwhile, until the digits
   run out (generateIncrementId). *)
THEOREM AloneTheyCount == Spec => []NumbersCount
<1>1. ASSUME Inv, NEW m, OneByOne(m), Wide \notin NumbersOf(m)
      PROVE  NumbersOf(m) = 1..Cardinality(RowsOf(m))
  <2>1. /\ DOMAIN approvals = 1..Len(approvals) /\ Len(approvals) \in Nat
        /\ \A k \in 1..Len(approvals) : approvals[k] \in Approval
    BY <1>1, ElementOfSeq, LenProperties DEF Inv
  <2>2. IsFiniteSet(RowsOf(m))
    <3>1. RowsOf(m) \in SUBSET (1..Len(approvals)) /\ IsFiniteSet(1..Len(approvals))
      BY <2>1, FS_Interval DEF RowsOf
    <3> QED BY <3>1, FS_Subset
  <2>3. NumbersOf(m) \in SUBSET (Nat \ {0}) /\ \A x \in NumbersOf(m) : x <= Wide
    BY <2>1, WideAssumption DEF NumbersOf, Approval, Numbers
  <2>4. \A x \in NumbersOf(m) : x = 1 \/ x - 1 \in NumbersOf(m)
    BY <1>1 DEF Inv, NumbersWithoutGaps, NumbersOf
  <2>5. ExistsBijection(RowsOf(m), NumbersOf(m))
    <3> DEFINE f == [i \in RowsOf(m) |-> approvals[i].number]
    <3>1. f \in [RowsOf(m) -> NumbersOf(m)] /\ \A n \in NumbersOf(m) : \E i \in RowsOf(m) : f[i] = n
      BY DEF RowsOf, NumbersOf
    <3>2. \A i, j \in RowsOf(m) : f[i] = f[j] => i = j
      <4> SUFFICES ASSUME NEW i \in RowsOf(m), NEW j \in RowsOf(m), i # j PROVE f[i] # f[j]
        OBVIOUS
      <4>1. i \in Nat /\ j \in Nat /\ approvals[i].number \in Nat /\ approvals[j].number \in Nat
        BY <2>1 DEF RowsOf, Approval, Numbers
      <4>2. CASE i < j
        BY <1>1, <4>1, <4>2, CountsUp
      <4>3. CASE j < i
        BY <1>1, <4>1, <4>3, CountsUp
      <4> QED BY <4>1, <4>2, <4>3
    <3> HIDE DEF f
    <3>3. f \in Bijection(RowsOf(m), NumbersOf(m))
      BY <3>1, <3>2 DEF Bijection, Injection, Surjection, IsInjective
    <3> QED BY <3>3 DEF ExistsBijection
  <2>6. Cardinality(NumbersOf(m)) = Cardinality(RowsOf(m))
    BY <2>2, <2>5, FS_Bijection
  <2>7. CASE NumbersOf(m) = {}
    <3>1. Cardinality(RowsOf(m)) = 0
      BY <2>6, <2>7, FS_EmptySet
    <3> QED BY <2>7, <3>1
  <2>8. CASE NumbersOf(m) # {}
    <3>1. PICK g \in NumbersOf(m) : \A x \in NumbersOf(m) : x <= g
      BY <2>3, <2>8, GreatestNumber, WideAssumption
    <3>2. NumbersOf(m) = 1..g /\ g \in Nat
      BY <2>3, <2>4, <3>1, NoGapsToGreatest
    <3>3. Cardinality(1..g) = g
      BY <2>3, <3>1, <3>2, FS_Interval
    <3> QED BY <2>6, <3>2, <3>3
  <2> QED BY <2>7, <2>8
<1>2. Inv => NumbersCount
  BY <1>1, CountsUp DEF NumbersCount
<1> QED BY <1>2, InitInv, NextInv, PTL DEF Spec

-----------------------------------------------------------------------------
(* Connections *)

(* Every transaction that a request leaves behind is updateStatus's. *)
NoLeak == leaked = 0 /\ \A r \in Requests : request[r].op # "status"

LEMMA GoesKeepsOp ==
    ASSUME request \in [Requests -> Request], NEW r \in Requests, NEW q \in Request, NEW k,
           Goes(r, q, k), NEW s \in Requests
    PROVE  request'[s].op \in {Nil, q.op, request[s].op}
<1>1. CASE k > Len(Script[q.op])
  <2>1. request' = [request EXCEPT ![r] = Idle] /\ Idle.op = Nil
    BY <1>1 DEF Goes, Idle
  <2> QED BY <2>1
<1>2. CASE ~(k > Len(Script[q.op]))
  <2> DEFINE p == [q EXCEPT !.at = k, !.month = IF Script[q.op][k] = "number" THEN month ELSE @]
  <2>1. request' = [request EXCEPT ![r] = p]
    BY <1>2 DEF Goes
  <2>2. p.op = q.op
    BY DEF Request
  <2> HIDE DEF p
  <2> QED BY <2>1, <2>2
<1> QED BY <1>1, <1>2

LEMMA NoLeakStep ==
    ASSUME "status" \notin Ops, Inv, NoLeak, [Next]_vars
    PROVE  NoLeak'
<1>1. /\ request \in [Requests -> Request] /\ Nil # "status" /\ Idle \in Request
      /\ Idle.op = Nil
  BY IdleReady, PoolAssumption DEF Inv, Ready, Idle
<1>2. CASE Restart
  BY <1>1, <1>2 DEF Restart, NoLeak
<1>3. CASE NextMonth \/ UNCHANGED vars
  BY <1>3 DEF NextMonth, vars, NoLeak
<1>4. ASSUME NEW r \in Requests, Arrive(r) PROVE NoLeak'
  <2>1. PICK op \in Ops : Goes(r, [Idle EXCEPT !.op = op], 1)
    BY <1>4 DEF Arrive
  <2> DEFINE q == [Idle EXCEPT !.op = op]
  <2>2. op \in DOMAIN Script
    BY PoolAssumption DEF Script
  <2>3. q \in Request /\ q.op = op
    BY <1>1, <2>2 DEF Request
  <2>4. Goes(r, q, 1) /\ leaked' = leaked
    BY <1>4, <2>1 DEF Arrive
  <2> HIDE DEF q
  <2> QED BY <1>1, <2>3, <2>4, GoesKeepsOp DEF NoLeak
<1>5. ASSUME NEW r \in Requests, Fails(r) PROVE NoLeak'
  <2>1. InTry(r)
    BY DEF NoLeak, InTry
  <2> QED BY <1>1, <1>5, <2>1 DEF Fails, NoLeak
<1>6. ASSUME NEW r \in Requests, NEW q \in Request, q.op = request[r].op, NEW k, Goes(r, q, k),
             leaked' = leaked
      PROVE  NoLeak'
  BY <1>1, <1>6, GoesKeepsOp DEF NoLeak
<1>7. ASSUME NEW r \in Requests PROVE /\ request[r] \in Request
                                      /\ Returned(r) \in Request /\ Returned(r).op = request[r].op
  BY <1>1 DEF Returned, Request
<1>8. ASSUME NEW r \in Requests, Grant(r) PROVE NoLeak'
  <2>1. CASE Step(r) = "begin"
    <3> DEFINE q == [request[r] EXCEPT !.open = TRUE]
    <3>1. q \in Request /\ q.op = request[r].op /\ Goes(r, q, request[r].at + 1)
      BY <1>7, <1>8, <2>1 DEF Grant, Lend, Request
    <3>2. leaked' = leaked
      BY <1>8 DEF Grant, Lend
    <3> HIDE DEF q
    <3> QED BY <1>6, <3>1, <3>2
  <2>2. CASE Step(r) # "begin"
    BY <1>1, <1>7, <1>8, <2>2 DEF Grant, Lend, NoLeak, Request
  <2> QED BY <2>1, <2>2
<1>9. ASSUME NEW r \in Requests, TimeOut(r) PROVE NoLeak'
  BY <1>5, <1>6, <1>7, <1>9 DEF TimeOut
<1>10. ASSUME NEW r \in Requests, Query(r) \/ Insert(r) \/ InsertUnanswered(r) PROVE NoLeak'
  BY <1>6, <1>7, <1>10 DEF Query, Insert, InsertUnanswered
<1>11. ASSUME NEW r \in Requests, ReadNumber(r) PROVE NoLeak'
  <2>1. PICK n \in NextNumbers(NumbersOf(request[r].month)) :
            Goes(r, [Returned(r) EXCEPT !.number = n, !.read = Len(approvals)], request[r].at + 1)
    BY <1>11 DEF ReadNumber
  <2>2. request'[r].op \in {Nil, request[r].op} /\ \A s \in Requests \ {r} : request'[s] = request[s]
    BY <1>1, <1>7, <2>1 DEF Goes, Request
  <2> QED BY <1>1, <1>11, <2>2 DEF ReadNumber, NoLeak
<1>12. ASSUME NEW r \in Requests, Commit(r) PROVE NoLeak'
  <2> DEFINE q == [request[r] EXCEPT !.open = FALSE]
  <2>1. q \in Request /\ q.op = request[r].op
    BY <1>7 DEF Request
  <2>2. Goes(r, q, request[r].at + 1) /\ leaked' = leaked
    BY <1>12 DEF Commit
  <2> HIDE DEF q
  <2> QED BY <1>6, <2>1, <2>2
<1> QED BY <1>2, <1>3, <1>4, <1>5, <1>8, <1>9, <1>10, <1>11, <1>12 DEF Next, Proceed, Refused

(* "Rollback the transaction in case of error" holds of every handler but
   updateStatus, which begins its transaction ahead of its try block: where
   it is not called, no connection is ever lost. *)
THEOREM OthersRollBack ==
    ASSUME "status" \notin Ops
    PROVE  Spec => []ErrorsRollBack
<1>1. Init => NoLeak
  BY PoolAssumption DEF Init, NoLeak, Idle
<1>2. Inv /\ NoLeak /\ [Next]_vars => NoLeak'
  BY NoLeakStep
<1>3. NoLeak => ErrorsRollBack
  BY DEF NoLeak, ErrorsRollBack
<1> QED BY <1>1, <1>2, <1>3, InitInv, NextInv, PTL DEF Spec

(* Handlers wait in a circle only if the pool has run out because of
   transactions: each connection is held by one that waits for a second
   connection, or is lost for good.  So there is none while the pool has a
   connection more than requests in flight and lost ones together. *)
NoCircle ==
    (\A r \in Requests : InFlight(r) => Waits(r)) =>
        /\ Used = Cardinality({r \in Requests : request[r].open}) + leaked
        /\ Cardinality(Requests) + leaked < MaxConnections => Used < MaxConnections

(* Holding the connection of a transaction while waiting for one more cannot
   stop all handlers at once where pool.max exceeds the requests in flight,
   and what updateStatus has lost, by one: one of those who wait is served
   without any timeout. *)
THEOREM SpareConnectionSuffices == Spec => []NoCircle
<1>1. ASSUME Inv, \A r \in Requests : InFlight(r) => Waits(r)
      PROVE  NoCircle
  <2>1. Lent = {}
    <3> SUFFICES ASSUME NEW r \in Requests, request[r].lent PROVE FALSE
      BY DEF Lent
    <3>1. InFlight(r)
      BY <1>1 DEF Inv, Ready, InFlight, Request
    <3> QED BY <1>1, <3>1 DEF Waits
  <2>2. Cardinality(Lent) = 0
    BY <2>1, FS_EmptySet
  <2>3. Open \in SUBSET Requests
    BY DEF Open
  <2>4. Cardinality(Open) \in Nat /\ Cardinality(Open) <= Cardinality(Requests)
    BY <1>1, <2>3, Borrowed, FS_Subset, PoolAssumption DEF Inv
  <2>5. Cardinality(Requests) \in Nat /\ leaked \in Nat /\ MaxConnections \in Nat
    BY <1>1, PoolAssumption, FS_CardinalityType DEF Inv
  <2>6. Used = Cardinality(Open) + leaked
    BY <2>2, <2>4, <2>5, UsedIs
  <2> QED BY <2>4, <2>5, <2>6 DEF NoCircle, Open
<1>2. Inv => NoCircle
  BY <1>1 DEF NoCircle
<1> QED BY <1>2, InitInv, NextInv, PTL DEF Spec
-----------------------------------------------------------------------------
(* How far a request in flight is from its end *)

(* The steps that a request can still take: through its script, and for each
   place in it one for the connection. *)
Remaining(q) == 2 * (6 - q.at) - (IF q.lent THEN 1 ELSE 0)

(* A step in which a request goes on, and does not end, takes one off. *)
Nearer(r) ==
    InFlight(r) /\ InFlight(r)' /\ request'[r] # request[r] =>
        Remaining(request[r])' < Remaining(request[r])

(* No request that is answered and lent what it waits for goes on for ever
   (the handlers of ApprovalService, KnexService.create). *)
StepsRunOut ==
    [][\A r \in Requests : Remaining(request[r]) \in 1..10 /\ Nearer(r)]_vars

LEMMA RemainingIs ==
    ASSUME NEW q \in Request
    PROVE  Remaining(q) \in 1..10
<1>1. q.at \in 1..5 /\ q.lent \in BOOLEAN
  BY DEF Request
<1> QED BY <1>1 DEF Remaining

(* A request that ends, or stays as it is. *)
LEMMA NearerAtEnd ==
    ASSUME NEW r \in Requests, request'[r] \in {Idle, request[r]}
    PROVE  Nearer(r)
BY DEF Nearer, InFlight, Idle

(* A request that goes on in its script, with or without a connection. *)
LEMMA GoesNearer ==
    ASSUME request \in [Requests -> Request], NEW r \in Requests, NEW q \in Request,
           NEW k \in Nat, k > request[r].at, Goes(r, q, k), NEW s \in Requests
    PROVE  Nearer(s)
<1>1. CASE k > Len(Script[q.op])
  <2>1. request' = [request EXCEPT ![r] = Idle]
    BY <1>1 DEF Goes
  <2> QED BY <2>1, NearerAtEnd
<1>2. CASE ~(k > Len(Script[q.op]))
  <2> DEFINE p == [q EXCEPT !.at = k, !.month = IF Script[q.op][k] = "number" THEN month ELSE @]
  <2>1. request' = [request EXCEPT ![r] = p]
    BY <1>2 DEF Goes
  <2>2. p.at = k /\ p.lent \in BOOLEAN
    BY DEF Request
  <2> HIDE DEF p
  <2>3. CASE s = r
    <3>1. request'[s] = p
      BY <2>1, <2>3
    <3>2. request[s].at \in 1..5 /\ request[s].lent \in BOOLEAN
      BY DEF Request
    <3>3. Remaining(p) < Remaining(request[s])
      BY <2>2, <2>3, <3>2 DEF Remaining
    <3> QED BY <3>1, <3>3 DEF Nearer, Remaining
  <2>4. CASE s # r
    BY <2>1, <2>4, NearerAtEnd
  <2> QED BY <2>3, <2>4
<1> QED BY <1>1, <1>2

LEMMA StepNearer ==
    ASSUME Inv, Next, NEW s \in Requests
    PROVE  Nearer(s)
<1>1. request \in [Requests -> Request]
  BY DEF Inv
<1>2. ASSUME NEW r \in Requests
      PROVE  /\ request[r] \in Request /\ Returned(r) \in Request
             /\ request[r].at \in 1..5 /\ request[r].at + 1 > request[r].at
             /\ request[r].at + 1 \in Nat /\ request[r].at + 2 \in Nat
             /\ request[r].at + 2 > request[r].at
  <2>1. request[r] \in Request
    BY <1>1
  <2>2. Returned(r) \in Request /\ request[r].at \in 1..5
    BY <2>1 DEF Returned, Request
  <2> QED BY <2>1, <2>2
<1>3. CASE Restart
  BY <1>3, NearerAtEnd DEF Restart
<1>4. CASE NextMonth
  BY <1>4, NearerAtEnd DEF NextMonth
<1>5. ASSUME NEW r \in Requests, Arrive(r) PROVE Nearer(s)
  <2>1. CASE s = r
    BY <1>5, <2>1 DEF Arrive, Nearer
  <2>2. CASE s # r
    BY <1>1, <1>5, <2>2, NearerAtEnd DEF Arrive, Goes
  <2> QED BY <2>1, <2>2
<1>6. ASSUME NEW r \in Requests, Fails(r) PROVE Nearer(s)
  BY <1>1, <1>6, NearerAtEnd DEF Fails
<1>7. ASSUME NEW r \in Requests, Grant(r) PROVE Nearer(s)
  <2>1. CASE Step(r) = "begin"
    <3> DEFINE q == [request[r] EXCEPT !.open = TRUE]
    <3>1. q \in Request /\ Goes(r, q, request[r].at + 1)
      BY <1>2, <1>7, <2>1 DEF Grant, Lend, Request
    <3> HIDE DEF q
    <3> QED BY <1>1, <1>2, <3>1, GoesNearer
  <2>2. CASE Step(r) # "begin"
    <3>1. request' = [request EXCEPT ![r].lent = TRUE] /\ request[r].lent = FALSE
      <4>1. ~request[r].lent /\ request[r].lent \in BOOLEAN
        BY <1>2, <1>7 DEF Grant, Lend, Waits, Request
      <4>2. request' = [request EXCEPT ![r].lent = TRUE]
        BY <1>7, <2>2 DEF Grant, Lend
      <4> QED BY <4>1, <4>2
    <3>2. CASE s = r
      <4>1. request'[s] = [request[s] EXCEPT !.lent = TRUE]
        BY <1>1, <3>1, <3>2
      <4>2. request'[s].at = request[s].at /\ request'[s].lent = TRUE
        BY <1>2, <4>1 DEF Request
      <4>3. Remaining(request'[s]) < Remaining(request[s])
        BY <1>2, <3>1, <3>2, <4>2 DEF Remaining
      <4> QED BY <4>3 DEF Nearer, Remaining
    <3>3. CASE s # r
      BY <1>1, <3>1, <3>3, NearerAtEnd
    <3> QED BY <3>2, <3>3
  <2> QED BY <2>1, <2>2
<1>8. ASSUME NEW r \in Requests, TimeOut(r) PROVE Nearer(s)
  BY <1>1, <1>2, <1>6, <1>8, GoesNearer DEF TimeOut
<1>9. ASSUME NEW r \in Requests, Query(r) \/ Insert(r) \/ InsertUnanswered(r) PROVE Nearer(s)
  BY <1>1, <1>2, <1>9, GoesNearer DEF Query, Insert, InsertUnanswered
<1>10. ASSUME NEW r \in Requests, ReadNumber(r) PROVE Nearer(s)
  <2>1. PICK n \in NextNumbers(NumbersOf(request[r].month)) :
            Goes(r, [Returned(r) EXCEPT !.number = n, !.read = Len(approvals)], request[r].at + 1)
    BY <1>10 DEF ReadNumber
  <2>2. [Returned(r) EXCEPT !.number = n, !.read = Len(approvals)] \in Request
    <3>1. /\ Len(approvals) \in Nat /\ DOMAIN approvals = 1..Len(approvals)
          /\ \A i \in 1..Len(approvals) : approvals[i] \in Approval
      BY LenProperties, ElementOfSeq DEF Inv
    <3> DEFINE S == NumbersOf(request[r].month)
    <3>2. S \subseteq Numbers
      BY <3>1 DEF NumbersOf, Approval
    <3> HIDE DEF S
    <3>3. n = 1 \/ \E l \in S : n = (l % Wide) + 1
      BY <2>1 DEF NextNumbers, Last, S
    <3>4. n \in Numbers
      BY <3>2, <3>3, WideAssumption DEF Numbers
    <3> QED BY <1>2, <3>1, <3>4 DEF Request
  <2> QED BY <1>1, <1>2, <2>1, <2>2, GoesNearer
<1>11. ASSUME NEW r \in Requests, Commit(r) PROVE Nearer(s)
  <2> DEFINE q == [request[r] EXCEPT !.open = FALSE]
  <2>1. q \in Request /\ Goes(r, q, request[r].at + 1)
    BY <1>2, <1>11 DEF Commit, Request
  <2> HIDE DEF q
  <2> QED BY <1>1, <1>2, <2>1, GoesNearer
<1> QED BY <1>3, <1>4, <1>5, <1>6, <1>7, <1>8, <1>9, <1>10, <1>11 DEF Next, Proceed, Refused

(* Whatever a request in flight does, waits included, takes it nearer to its
   end, and no other request takes it back: a handler makes ten steps of its
   own at most.  With the timer of each wait this is EveryRequestEnds. *)
THEOREM StepsOfRequestsRunOut == Spec => StepsRunOut
<1>1. Inv /\ [Next]_vars =>
          [\A r \in Requests : Remaining(request[r]) \in 1..10 /\ Nearer(r)]_vars
  BY RemainingIs, StepNearer DEF Inv
<1>2. Inv /\ [Next]_vars => Inv'
  BY NextInv
<1> QED BY InitInv, <1>1, <1>2, PTL DEF Spec, StepsRunOut
=============================================================================

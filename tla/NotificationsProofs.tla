------------------------- MODULE NotificationsProofs -------------------------
(***************************************************************************)
(* Proofs about SocketHub and Notifications: type correctness, that        *)
(* clients which are gone are dropped, that what is committed has been     *)
(* announced, to nobody more than twice, that no count exceeds what its    *)
(* employee was told, and that only old counts make the cache wrong.       *)
(***************************************************************************)
EXTENDS Notifications, FiniteSetTheorems, SequenceTheorems, TLAPS

(* A client with a pong on its way has missed no heartbeat and has not
   answered the last ping; one that is gone and marked alive has missed none. *)
HubInv ==
    /\ HubTypeOK
    /\ \A c \in Clients :
          /\ wire[c] \in {"new", "up"} => missed[c] = 0
          /\ wire[c] = "last" => missed[c] = 0 /\ ~isAlive[c]
          /\ wire[c] = "gone" => missed[c] <= 1 /\ (isAlive[c] => missed[c] = 0)

Row == [to : Employees, by : Transactions, isRead : BOOLEAN]
Handler == [pc : {"new", "open", "committed", "failed"}, plan : Plans \cup {<<>>}, told : Nat]
Call == [pc : {"idle", "look", "count", "store"}, of : Employees \cup {Nil}, count : Nat]

(* A handler has announced to the first of its plan; it commits after the
   last one. *)
Announced ==
    \A t \in Transactions :
        /\ handler[t].pc = "committed" => handler[t].told = Len(handler[t].plan)
        /\ \A n \in 1..handler[t].told :
              \E i \in RowsOf(handler[t].plan[n]) : rows[i].by = t

-----------------------------------------------------------------------------
(* The hub *)

LEMMA InitHub == HubInit => HubInv
BY DEF HubInit, HubInv, HubTypeOK

(* Whatever clients do and the heartbeat finds. *)
LEMMA HubStepHub ==
    ASSUME HubInv, HubStep
    PROVE  HubInv'
<1>1. ASSUME NEW c \in Clients, Connect(c) PROVE HubInv'
  BY <1>1 DEF Connect, HubInv, HubTypeOK
<1>2. ASSUME NEW c \in Clients, Pong(c) PROVE HubInv'
  BY <1>2 DEF Pong, HubInv, HubTypeOK
<1>3. ASSUME NEW c \in Clients, Close(c) PROVE HubInv'
  BY <1>3 DEF Close, HubInv, HubTypeOK
<1>4. ASSUME NEW c \in Clients, Vanish(c) PROVE HubInv'
  BY <1>4 DEF Vanish, HubInv, HubTypeOK
<1>5. CASE Heartbeat
  <2>1. /\ clients' = clients \ Unanswered
        /\ wire' = [c \in Clients |-> IF c \in Unanswered THEN "closed" ELSE wire[c]]
        /\ missed' = [c \in Clients |-> IF c \notin Unanswered /\ Gone(c) /\ missed[c] < 2
                                        THEN missed[c] + 1 ELSE missed[c]]
        /\ isAlive' = [c \in Clients |-> FALSE]
    BY <1>5 DEF Heartbeat, Terminate
  <2>2. Unanswered = {c \in Clients : wire[c] \in {"up", "last", "gone"} /\ ~isAlive[c]}
    BY DEF Unanswered, HubInv, HubTypeOK
  <2> QED BY <2>1, <2>2 DEF HubInv, HubTypeOK, Gone
<1> QED BY <1>1, <1>2, <1>3, <1>4, <1>5 DEF HubStep, ClientStep

(* Steps of the others leave the hub alone. *)
LEMMA HubStands ==
    ASSUME HubInv, UNCHANGED hub
    PROVE  HubInv'
BY DEF hub, HubInv, HubTypeOK

LEMMA NextHub ==
    ASSUME HubInv, [Next]_vars
    PROVE  HubInv'
<1>1. CASE HubStep
  BY <1>1, HubStepHub
<1>2. CASE UNCHANGED hub
  BY <1>2, HubStands
<1>3. ~HubStep => UNCHANGED hub
  BY DEF Next, vars, Begin, Notify, Commit, Abort, MarkAsRead, MarkAllAsRead, Expire,
     Goes, Look, Count, Store, Lost, GetUnreadCount
<1> QED BY <1>1, <1>2, <1>3

(* A client that is gone outlives one heartbeat, never two, for any number of
   clients (startHeartbeat). *)
THEOREM SilentAreDropped == Spec => []SilentClientsAreDropped
<1>1. Init => HubInv
  BY InitHub DEF Init
<1>2. HubInv => SilentClientsAreDropped
  BY DEF HubInv, HubTypeOK, SilentClientsAreDropped, Gone
<1> QED BY <1>1, <1>2, NextHub, PTL DEF Spec

-----------------------------------------------------------------------------
(* Types *)

(* Whom a handler tells next. *)
LEMMA NextTold ==
    ASSUME TypeOK, NEW t \in Transactions, handler[t].told < Len(handler[t].plan)
    PROVE  /\ handler[t].told \in Nat /\ handler[t].told + 1 <= Len(handler[t].plan)
           /\ handler[t].plan[handler[t].told + 1] \in Employees
<1>1. handler[t].told \in Nat /\ handler[t].plan \in Seq(Employees)
  BY NotificationsAssumption, EmptySeq DEF TypeOK
<1>2. Len(handler[t].plan) \in Nat
  BY <1>1, LenProperties
<1> QED BY <1>1, <1>2, ElementOfSeq

(* Rows are only added, and keep whom they tell and who told. *)
RowsGrow ==
    /\ rows' \in Seq(Row)
    /\ Len(rows) <= Len(rows')
    /\ \A i \in 1..Len(rows) : rows'[i].to = rows[i].to /\ rows'[i].by = rows[i].by

LEMMA NotifyGrows ==
    ASSUME TypeOK, NEW t \in Transactions, Notify(t)
    PROVE  /\ RowsGrow
           /\ \E i \in DOMAIN rows' : /\ rows'[i].to = handler[t].plan[handler[t].told + 1]
                                      /\ rows'[i].by = t
<1> DEFINE row == [to |-> handler[t].plan[handler[t].told + 1], by |-> t, isRead |-> FALSE]
<1>1. row \in Row
  BY NextTold DEF Notify, Row
<1>2. PICK inserted \in {<<row>>, <<row, row>>} : rows' = rows \o inserted
  BY DEF Notify
<1>3. inserted \in Seq(Row) /\ Len(inserted) \in Nat \ {0} /\ inserted[1] = row
  <2> HIDE DEF row
  <2>1. CASE inserted = <<row>>
    BY <1>1, <2>1
  <2>2. CASE inserted = <<row, row>>
    BY <1>1, <2>2
  <2> QED BY <1>2, <2>1, <2>2
<1>4. rows \in Seq(Row) /\ Len(rows) \in Nat
  BY LenProperties DEF TypeOK, Row
<1> HIDE DEF row
<1>5. /\ rows' \in Seq(Row) /\ Len(rows') = Len(rows) + Len(inserted)
      /\ \A i \in 1..Len(rows') : rows'[i] = IF i <= Len(rows) THEN rows[i] ELSE inserted[i - Len(rows)]
  BY <1>2, <1>3, <1>4, ConcatProperties
<1>6. Len(rows) + 1 \in 1..Len(rows') /\ rows'[Len(rows) + 1] = row
  BY <1>3, <1>4, <1>5
<1>7. Len(rows) + 1 \in DOMAIN rows'
  BY <1>5, <1>6, LenProperties
<1>8. RowsGrow
  BY <1>3, <1>4, <1>5 DEF RowsGrow
<1> QED BY <1>6, <1>7, <1>8 DEF row

LEMMA NextRows ==
    ASSUME TypeOK, [Next]_vars
    PROVE  RowsGrow
<1>1. rows \in Seq(Row) /\ Len(rows) \in Nat /\ DOMAIN rows = 1..Len(rows)
  BY LenProperties DEF TypeOK, Row
<1>2. \A i \in 1..Len(rows) : rows[i] \in Row
  BY <1>1, ElementOfSeq
<1>3. ASSUME rows' = rows PROVE RowsGrow
  BY <1>1, <1>3 DEF RowsGrow
<1>4. ASSUME NEW t \in Transactions, Notify(t) PROVE RowsGrow
  BY <1>4, NotifyGrows
<1>5. ASSUME NEW i \in DOMAIN rows, MarkAsRead(i) PROVE RowsGrow
  <2>1. [rows[i] EXCEPT !.isRead = TRUE] \in Row
    BY <1>1, <1>2 DEF Row
  <2>2. rows' = [rows EXCEPT ![i] = [rows[i] EXCEPT !.isRead = TRUE]]
    BY <1>5 DEF MarkAsRead
  <2>3. rows' \in Seq(Row) /\ Len(rows') = Len(rows)
    BY <1>1, <2>1, <2>2, ExceptSeq
  <2>4. ASSUME NEW j \in 1..Len(rows) PROVE rows'[j].to = rows[j].to /\ rows'[j].by = rows[j].by
    BY <1>1, <1>2, <2>2 DEF Row
  <2> QED BY <1>1, <2>3, <2>4 DEF RowsGrow
<1>6. ASSUME NEW e \in Employees, MarkAllAsRead(e) PROVE RowsGrow
  <2>1. rows' = [i \in 1..Len(rows) |->
                    IF i \in RowsOf(e) THEN [rows[i] EXCEPT !.isRead = TRUE] ELSE rows[i]]
    BY <1>1, <1>6 DEF MarkAllAsRead
  <2>2. \A i \in 1..Len(rows) : rows'[i] \in Row /\ rows'[i].to = rows[i].to /\ rows'[i].by = rows[i].by
    BY <1>2, <2>1 DEF Row
  <2>3. rows' \in [1..Len(rows) -> Row]
    BY <2>1, <2>2
  <2>4. rows' \in Seq(Row)
    BY <1>1, <2>3, SeqDef
  <2>5. Len(rows') = Len(rows)
    BY <1>1, <2>3, <2>4, LenProperties
  <2> QED BY <1>1, <2>2, <2>4, <2>5 DEF RowsGrow
<1>7. (\A t \in Transactions : ~Notify(t)) /\ (\A i \in DOMAIN rows : ~MarkAsRead(i))
      /\ (\A e \in Employees : ~MarkAllAsRead(e)) => rows' = rows
  BY DEF Next, vars, table, HubStep, Begin, Commit, Abort, Expire, Goes, Look, Count, Store,
     Lost, GetUnreadCount
<1> QED BY <1>3, <1>4, <1>5, <1>6, <1>7

(* Numbers of rows are numbers, and only grow. *)
LEMMA RowsOfType ==
    ASSUME rows \in Seq(Row)
    PROVE  \A e : /\ IsFiniteSet(RowsOf(e)) /\ Cardinality(RowsOf(e)) \in Nat
                  /\ UnreadOf(e) \in Nat /\ UnreadOf(e) <= Cardinality(RowsOf(e))
<1> SUFFICES ASSUME NEW e
             PROVE  /\ IsFiniteSet(RowsOf(e)) /\ Cardinality(RowsOf(e)) \in Nat
                    /\ UnreadOf(e) \in Nat /\ UnreadOf(e) <= Cardinality(RowsOf(e))
  OBVIOUS
<1>1. Len(rows) \in Nat /\ DOMAIN rows = 1..Len(rows)
  BY LenProperties
<1>2. IsFiniteSet(1..Len(rows))
  BY <1>1, FS_Interval
<1>3. IsFiniteSet(RowsOf(e)) /\ Cardinality(RowsOf(e)) \in Nat
  <2>1. RowsOf(e) \in SUBSET (1..Len(rows))
    BY <1>1 DEF RowsOf
  <2> QED BY <1>2, <2>1, FS_Subset, FS_CardinalityType
<1>4. {i \in RowsOf(e) : ~rows[i].isRead} \in SUBSET RowsOf(e)
  OBVIOUS
<1> QED BY <1>3, <1>4, FS_Subset, FS_CardinalityType DEF UnreadOf

LEMMA RowsOfGrows ==
    ASSUME rows \in Seq(Row), RowsGrow
    PROVE  \A e \in Employees :
               RowsOf(e) \subseteq RowsOf(e)' /\ Cardinality(RowsOf(e)) <= Cardinality(RowsOf(e)')
<1> SUFFICES ASSUME NEW e \in Employees
             PROVE  RowsOf(e) \subseteq RowsOf(e)' /\ Cardinality(RowsOf(e)) <= Cardinality(RowsOf(e)')
  OBVIOUS
<1>1. Len(rows) \in Nat /\ DOMAIN rows = 1..Len(rows) /\ Len(rows') \in Nat /\ DOMAIN rows' = 1..Len(rows')
  BY LenProperties DEF RowsGrow
<1>2. RowsOf(e) \subseteq RowsOf(e)'
  BY <1>1 DEF RowsOf, RowsGrow
<1>3. IsFiniteSet(RowsOf(e)')
  <2>1. RowsOf(e)' \in SUBSET (1..Len(rows')) /\ IsFiniteSet(1..Len(rows'))
    BY <1>1, FS_Interval DEF RowsOf
  <2> QED BY <2>1, FS_Subset
<1> QED BY <1>2, <1>3, FS_Subset

(* Every step keeps the types. *)
LEMMA NextType ==
    ASSUME HubInv, TypeOK, [Next]_vars
    PROVE  TypeOK'
<1>1. HubTypeOK'
  BY NextHub DEF HubInv
<1>2. rows' \in Seq([to : Employees, by : Transactions, isRead : BOOLEAN])
  BY NextRows DEF RowsGrow, Row
<1> DEFINE HandlerOK == /\ handler \in [Transactions -> [pc : {"new", "open", "committed", "failed"},
                                                          plan : Plans \cup {<<>>}, told : Nat]]
                        /\ \A t \in Transactions : handler[t].told <= Len(handler[t].plan)
           CountingOK == /\ counting \in [Counters -> [pc : {"idle", "look", "count", "store"},
                                                        of : Employees \cup {Nil}, count : Nat]]
                         /\ \A k \in Counters : counting[k].pc # "idle" => counting[k].of \in Employees
           UnreadOK == unread \in [Employees -> Nat \cup {Nil}]
<1>3. HandlerOK /\ CountingOK /\ UnreadOK /\ rows \in Seq(Row)
  BY DEF TypeOK, Row
<1>4. HandlerOK'
  <2>6. ASSUME NEW t \in Transactions, NEW h \in Handler, h.told <= Len(h.plan),
               handler' = [handler EXCEPT ![t] = h]
        PROVE  HandlerOK'
    BY <1>3, <2>6 DEF Handler
  <2>1. ASSUME NEW t \in Transactions, Begin(t) PROVE HandlerOK'
    <3>1. PICK plan \in Plans : handler' = [handler EXCEPT ![t] = [pc |-> "open", plan |-> plan, told |-> 0]]
      BY <2>1 DEF Begin
    <3>2. Len(plan) \in Nat
      BY NotificationsAssumption, LenProperties
    <3> QED BY <1>3, <3>1, <3>2
  <2>2. ASSUME NEW t \in Transactions, Notify(t) PROVE HandlerOK'
    <3>1. /\ handler' = [handler EXCEPT ![t] = [handler[t] EXCEPT !.told = handler[t].told + 1]]
          /\ handler[t].told < Len(handler[t].plan)
      BY <2>2 DEF Notify
    <3>2. /\ [handler[t] EXCEPT !.told = handler[t].told + 1] \in Handler
          /\ handler[t].told + 1 <= Len(handler[t].plan)
      <4>1. handler[t] \in Handler
        BY <1>3 DEF Handler
      <4>2. handler[t].told + 1 \in Nat /\ handler[t].told + 1 <= Len(handler[t].plan)
        BY <3>1, NextTold
      <4> QED BY <4>1, <4>2 DEF Handler
    <3> QED BY <2>6, <3>1, <3>2 DEF Handler
  <2>3. ASSUME NEW t \in Transactions, Commit(t) \/ Abort(t) PROVE HandlerOK'
    <3>1. PICK pc \in {"committed", "failed"} : handler' = [handler EXCEPT ![t] = [handler[t] EXCEPT !.pc = pc]]
      BY <2>3 DEF Commit, Abort
    <3>2. [handler[t] EXCEPT !.pc = pc] \in Handler
      BY <1>3 DEF Handler
    <3> QED BY <1>3, <2>6, <3>1, <3>2 DEF Handler
  <2>4. CASE handler' = handler
    BY <1>3, <2>4
  <2>5. (\A t \in Transactions : ~Begin(t) /\ ~Notify(t) /\ ~Commit(t) /\ ~Abort(t)) => handler' = handler
    BY DEF Next, vars, table, HubStep, MarkAsRead, MarkAllAsRead, Expire, Goes, Look, Count, Store,
       Lost, GetUnreadCount
  <2> QED BY <2>1, <2>2, <2>3, <2>4, <2>5
<1>5. ASSUME NEW k \in Counters, NEW q \in Call, q.pc # "idle" => q.of \in Employees,
             counting' = [counting EXCEPT ![k] = q]
      PROVE  CountingOK'
  BY <1>3, <1>5 DEF Call
<1>8. ASSUME NEW e \in Employees
      PROVE  [pc |-> "look", of |-> e, count |-> 0] \in Call
  BY DEF Call
<1>6. CountingOK'
  <2>1. ASSUME NEW t \in Transactions, Notify(t) PROVE CountingOK'
    <3>1. handler[t].plan[handler[t].told + 1] \in Employees
      BY <2>1, NextTold DEF Notify
    <3> QED BY <1>3, <1>5, <1>8, <2>1, <3>1 DEF Notify, Push
  <2>2. ASSUME NEW k \in Counters, NEW e \in Employees, GetUnreadCount(k, e) PROVE CountingOK'
    BY <1>5, <1>8, <2>2 DEF GetUnreadCount
  <2>3. ASSUME NEW k \in Counters, Goes(k) PROVE CountingOK'
    <3>1. CASE Count(k)
      <4>1. PICK n \in Nat : n = UnreadOf(counting[k].of)
        BY <1>3, RowsOfType
      <4> DEFINE q == [pc |-> "store", of |-> counting[k].of, count |-> n]
      <4>2. counting' = [counting EXCEPT ![k] = q] /\ counting[k].pc # "idle"
        BY <3>1, <4>1 DEF Count
      <4>3. q \in Call /\ q.of \in Employees
        BY <1>3, <4>1, <4>2 DEF Call
      <4> HIDE DEF q
      <4>4. counting' \in [Counters -> Call]
        BY <1>3, <4>2, <4>3 DEF Call
      <4>5. \A j \in Counters : counting'[j].pc # "idle" => counting'[j].of \in Employees
        BY <1>3, <4>2, <4>3
      <4> QED BY <4>4, <4>5 DEF Call
    <3>2. CASE counting' = [counting EXCEPT ![k] = Idle]
      <4>1. Idle \in Call /\ Idle.pc = "idle"
        BY DEF Idle, Call
      <4>2. counting' \in [Counters -> Call]
        BY <1>3, <3>2, <4>1 DEF Call
      <4>3. \A j \in Counters : counting'[j].pc # "idle" => counting'[j].of \in Employees
        BY <1>3, <3>2, <4>1
      <4> QED BY <4>2, <4>3 DEF Call
    <3>3. CASE Look(k) /\ unread[counting[k].of] = Nil
      <4>1. PICK q : q = [counting[k] EXCEPT !.pc = "count"]
        OBVIOUS
      <4>2. counting' = [counting EXCEPT ![k] = q] /\ counting[k].pc # "idle"
        BY <3>3, <4>1 DEF Look
      <4>3. q \in Call /\ q.of \in Employees
        BY <1>3, <4>1, <4>2 DEF Call
      <4>4. counting' \in [Counters -> Call]
        BY <1>3, <4>2, <4>3 DEF Call
      <4>5. \A j \in Counters : counting'[j].pc # "idle" => counting'[j].of \in Employees
        BY <1>3, <4>2, <4>3
      <4> QED BY <4>4, <4>5 DEF Call
    <3>4. \/ Count(k)
          \/ counting' = [counting EXCEPT ![k] = Idle]
          \/ Look(k) /\ unread[counting[k].of] = Nil
      BY <2>3 DEF Goes, Look, Store, Lost
    <3> QED BY <3>1, <3>2, <3>3, <3>4
  <2>4. CASE counting' = counting
    BY <1>3, <2>4
  <2>5. \/ counting' = counting
        \/ \E t \in Transactions : Notify(t)
        \/ \E k \in Counters : Goes(k) \/ \E e \in Employees : GetUnreadCount(k, e)
    BY DEF Next, vars, HubStep, Begin, Commit, Abort, MarkAsRead, MarkAllAsRead, Expire
  <2> QED BY <2>1, <2>2, <2>3, <2>4, <2>5
<1>7. UnreadOK'
  <2>1. ASSUME NEW e \in Employees, Expire(e) PROVE UnreadOK'
    BY <1>3, <2>1 DEF Expire
  <2>2. ASSUME NEW k \in Counters, Store(k) PROVE UnreadOK'
    BY <1>3, <2>2 DEF Store
  <2>3. \/ unread' = unread
        \/ \E e \in Employees : Expire(e)
        \/ \E k \in Counters : Store(k)
    BY DEF Next, vars, HubStep, Begin, Notify, Commit, Abort, MarkAsRead, MarkAllAsRead, Goes,
       Look, Count, Lost, GetUnreadCount
  <2> QED BY <1>3, <2>1, <2>2, <2>3
<1> QED BY <1>1, <1>2, <1>4, <1>6, <1>7 DEF TypeOK

LEMMA InitType == Init => HubInv /\ TypeOK
<1> SUFFICES ASSUME Init PROVE HubInv /\ TypeOK
  OBVIOUS
<1>1. HubInv
  BY InitHub DEF Init
<1>2. /\ handler = [t \in Transactions |-> [pc |-> "new", plan |-> <<>>, told |-> 0]]
      /\ rows = <<>> /\ counting = [k \in Counters |-> Idle] /\ unread = [e \in Employees |-> Nil]
  BY DEF Init
<1> QED BY <1>1, <1>2 DEF TypeOK, HubInv, Idle

(* Types, those of the hub included. *)
THEOREM TypeCorrect == Spec => []TypeOK
<1> QED BY InitType, NextHub, NextType, PTL DEF Spec

-----------------------------------------------------------------------------
(* What was announced stays announced. *)
LEMMA ToldStays ==
    ASSUME TypeOK, RowsGrow, NEW e, NEW t, \E i \in RowsOf(e) : rows[i].by = t
    PROVE  \E i \in RowsOf(e)' : rows'[i].by = t
<1>1. Len(rows) \in Nat /\ DOMAIN rows = 1..Len(rows) /\ Len(rows') \in Nat /\ DOMAIN rows' = 1..Len(rows')
  BY LenProperties DEF TypeOK, RowsGrow
<1>2. PICK i \in 1..Len(rows) : rows[i].to = e /\ rows[i].by = t
  BY <1>1 DEF RowsOf
<1>3. i \in DOMAIN rows' /\ rows'[i].to = e /\ rows'[i].by = t
  BY <1>1, <1>2 DEF RowsGrow
<1> QED BY <1>3 DEF RowsOf

LEMMA NextAnnounced ==
    ASSUME TypeOK, Announced, [Next]_vars
    PROVE  Announced'
<1> DEFINE Told(t, n) == \E i \in RowsOf(handler[t].plan[n]) : rows[i].by = t
           AnnouncedOf(t) == /\ handler[t].pc = "committed" => handler[t].told = Len(handler[t].plan)
                             /\ \A n \in 1..handler[t].told : Told(t, n)
<1>1. RowsGrow
  BY NextRows
<1>2. \A t \in Transactions : AnnouncedOf(t) /\ handler[t].told \in Nat
  BY DEF Announced, TypeOK
<1>3. handler \in [Transactions -> Handler]
  BY DEF TypeOK, Handler
<1> SUFFICES ASSUME NEW t \in Transactions
             PROVE  AnnouncedOf(t)'
  BY DEF Announced
<1>4. ASSUME NEW n, handler'[t].plan[n] = handler[t].plan[n], Told(t, n)
      PROVE  Told(t, n)'
  <2>1. PICK e : e = handler[t].plan[n]
    OBVIOUS
  <2>2. \E i \in RowsOf(e)' : rows'[i].by = t
    BY <1>1, <1>4, <2>1, ToldStays
  <2> QED BY <1>4, <2>1, <2>2 DEF RowsOf
<1>5. CASE Begin(t)
  <2>1. handler'[t].pc = "open" /\ handler'[t].told = 0
    BY <1>3, <1>5 DEF Begin
  <2> QED BY <2>1
<1>6. CASE Notify(t)
  <2>1. /\ handler[t].pc = "open"
        /\ handler'[t] = [handler[t] EXCEPT !.told = handler[t].told + 1]
    BY <1>3, <1>6 DEF Notify
  <2>2. /\ handler'[t].pc = "open" /\ handler'[t].plan = handler[t].plan
        /\ handler'[t].told = handler[t].told + 1
    BY <1>3, <2>1 DEF Handler
  <2>3. PICK last : last = handler[t].told + 1
    OBVIOUS
  <2>4. Told(t, last)'
    <3>1. PICK e : e = handler[t].plan[last]
      OBVIOUS
    <3>2. \E i \in DOMAIN rows' : rows'[i].to = e /\ rows'[i].by = t
      BY <1>6, <2>3, <3>1, NotifyGrows
    <3>3. e = handler'[t].plan[last]
      BY <2>2, <3>1
    <3> QED BY <3>2, <3>3 DEF RowsOf
  <2>5. ASSUME NEW n \in 1..handler'[t].told PROVE Told(t, n)'
    <3>1. CASE n \in 1..handler[t].told
      BY <1>2, <1>4, <2>2, <3>1
    <3>2. n \in 1..handler[t].told \/ n = last
      BY <1>2, <2>2, <2>3
    <3> QED BY <2>4, <3>1, <3>2
  <2> QED BY <2>2, <2>5
<1>7. CASE Commit(t) \/ Abort(t)
  <2>1. /\ handler'[t].plan = handler[t].plan /\ handler'[t].told = handler[t].told
        /\ handler'[t].pc = "committed" => handler[t].told = Len(handler[t].plan)
    BY <1>3, <1>7 DEF Commit, Abort, Handler
  <2> QED BY <1>2, <1>4, <2>1
<1>8. CASE handler'[t] = handler[t]
  BY <1>2, <1>4, <1>8
<1>9. Begin(t) \/ Notify(t) \/ Commit(t) \/ Abort(t) \/ handler'[t] = handler[t]
  <2>1. ASSUME NEW s \in Transactions, s # t, Begin(s) \/ Notify(s) \/ Commit(s) \/ Abort(s)
        PROVE  handler'[t] = handler[t]
    BY <1>3, <2>1 DEF Begin, Notify, Commit, Abort
  <2>2. (\A s \in Transactions : ~Begin(s) /\ ~Notify(s) /\ ~Commit(s) /\ ~Abort(s)) => handler' = handler
    BY DEF Next, vars, table, HubStep, MarkAsRead, MarkAllAsRead, Expire, Goes, Look, Count, Store,
       Lost, GetUnreadCount
  <2> QED BY <2>1, <2>2
<1> QED BY <1>5, <1>6, <1>7, <1>8, <1>9

(* What is committed has been announced to everyone it concerns, for any plan
   and any number of transactions (updateApprovalContinuous). *)
THEOREM CommittedAnnounced == Spec => []CommittedIsAnnounced
<1>1. Init => Announced
  <2> SUFFICES ASSUME Init PROVE Announced
    OBVIOUS
  <2>1. \A t \in Transactions : handler[t].pc = "new" /\ handler[t].told = 0
    BY DEF Init
  <2> QED BY <2>1 DEF Announced
<1>2. TypeOK /\ Announced => CommittedIsAnnounced
  <2> SUFFICES ASSUME TypeOK, Announced, NEW t \in Transactions, handler[t].pc = "committed",
                      NEW n \in DOMAIN handler[t].plan
               PROVE  \E i \in RowsOf(handler[t].plan[n]) : rows[i].by = t
    BY DEF CommittedIsAnnounced
  <2>1. handler[t].plan \in Seq(Employees)
    BY NotificationsAssumption, EmptySeq DEF TypeOK
  <2>2. n \in 1..handler[t].told
    BY <2>1, LenProperties DEF Announced
  <2> QED BY <2>2 DEF Announced
<1> QED BY <1>1, <1>2, InitType, NextHub, NextType, NextAnnounced, PTL DEF Spec

-----------------------------------------------------------------------------
(* A call comes to the point of storing by its own count only. *)
LEMMA CallsMove ==
    ASSUME TypeOK, [Next]_vars, NEW k \in Counters, counting'[k].pc = "store"
    PROVE  counting'[k] = counting[k] \/ Count(k)
<1>0. counting \in [Counters -> Call]
  BY DEF TypeOK, Call
<1>1. counting'[k].pc # "look" /\ counting'[k].pc # "count" /\ Idle.pc # "store"
  BY DEF Idle
<1>2. ASSUME NEW t \in Transactions, Notify(t) PROVE counting'[k] = counting[k]
  BY <1>0, <1>1, <1>2 DEF Notify, Push
<1>3. ASSUME NEW j \in Counters, Goes(j) PROVE counting'[k] = counting[k] \/ Count(k)
  <2>1. CASE Look(j)
    <3>1. j = k => counting'[k] = Idle \/ counting'[k] = [counting[k] EXCEPT !.pc = "count"]
      BY <1>0, <2>1 DEF Look
    <3>2. [counting[k] EXCEPT !.pc = "count"].pc = "count"
      BY <1>0 DEF Call
    <3>3. j # k
      BY <1>1, <3>1, <3>2
    <3> QED BY <1>0, <2>1, <3>3 DEF Look
  <2>2. CASE Store(j) \/ Lost(j)
    BY <1>0, <1>1, <2>2 DEF Store, Lost
  <2>3. CASE Count(j)
    BY <1>0, <2>3 DEF Count
  <2> QED BY <1>3, <2>1, <2>2, <2>3 DEF Goes
<1>4. ASSUME NEW j \in Counters, NEW e \in Employees, GetUnreadCount(j, e)
      PROVE  counting'[k] = counting[k]
  BY <1>0, <1>1, <1>4 DEF GetUnreadCount
<1>5. \/ counting' = counting
      \/ \E t \in Transactions : Notify(t)
      \/ \E j \in Counters : Goes(j) \/ \E e \in Employees : GetUnreadCount(j, e)
  BY DEF Next, vars, HubStep, Begin, Commit, Abort, MarkAsRead, MarkAllAsRead, Expire
<1> QED BY <1>2, <1>3, <1>4, <1>5

(* The cache takes a number from a call of the same employee only. *)
LEMMA CacheMoves ==
    ASSUME TypeOK, [Next]_vars, NEW e \in Employees, unread'[e] # Nil
    PROVE  \/ unread'[e] = unread[e]
           \/ \E k \in Counters : Store(k) /\ counting[k].of = e
<1>0. unread \in [Employees -> Nat \cup {Nil}]
  BY DEF TypeOK
<1>1. ASSUME NEW k \in Counters, Store(k), counting[k].of # e PROVE unread'[e] = unread[e]
  BY <1>0, <1>1 DEF Store
<1>2. ASSUME NEW f \in Employees, Expire(f) PROVE unread'[e] = unread[e]
  BY <1>0, <1>2 DEF Expire
<1>3. \/ unread' = unread
      \/ \E f \in Employees : Expire(f)
      \/ \E k \in Counters : Store(k)
  BY DEF Next, vars, HubStep, Begin, Notify, Commit, Abort, MarkAsRead, MarkAllAsRead, Goes,
     Look, Count, Lost, GetUnreadCount
<1> QED BY <1>1, <1>2, <1>3

(* A count is taken of rows of its own employee, and rows never become
   fewer, so that it is not too great when it is stored. *)
LEMMA NextCounts ==
    ASSUME TypeOK, CountsAreOwn, [Next]_vars
    PROVE  CountsAreOwn'
<1>1. /\ counting \in [Counters -> Call] /\ unread \in [Employees -> Nat \cup {Nil}]
      /\ \A k \in Counters : counting[k].pc # "idle" => counting[k].of \in Employees
      /\ rows \in Seq(Row)
  BY DEF TypeOK, Call, Row
<1>2. \A e \in Employees : /\ Cardinality(RowsOf(e)) \in Nat /\ Cardinality(RowsOf(e)') \in Nat
                           /\ Cardinality(RowsOf(e)) <= Cardinality(RowsOf(e)')
  <2>1. RowsGrow
    BY NextRows
  <2>2. \A e : Cardinality(RowsOf(e)) \in Nat
    BY <1>1, RowsOfType
  <2>3. ASSUME NEW e PROVE Cardinality(RowsOf(e)') \in Nat
    <3>1. Len(rows') \in Nat /\ DOMAIN rows' = 1..Len(rows')
      BY <2>1, LenProperties DEF RowsGrow
    <3>2. RowsOf(e)' \in SUBSET (1..Len(rows')) /\ IsFiniteSet(1..Len(rows'))
      BY <3>1, FS_Interval DEF RowsOf
    <3> QED BY <3>2, FS_Subset, FS_CardinalityType
  <2> QED BY <1>1, <2>1, <2>2, <2>3, RowsOfGrows
<1>3. ASSUME NEW k \in Counters, counting'[k].pc = "store"
      PROVE  /\ counting'[k].of \in Employees
             /\ counting'[k].count <= Cardinality(RowsOf(counting[k].of)')
  <2>1. CASE counting'[k] = counting[k]
    <3>1. counting[k].of \in Employees /\ counting[k].count <= Cardinality(RowsOf(counting[k].of))
      BY <1>1, <1>3, <2>1 DEF CountsAreOwn
    <3> QED BY <1>1, <1>2, <2>1, <3>1 DEF Call
  <2>2. CASE Count(k)
    <3>1. PICK e \in Employees : e = counting[k].of
      BY <1>1, <2>2 DEF Count
    <3>2. counting'[k] = [pc |-> "store", of |-> e, count |-> UnreadOf(e)]
      BY <1>1, <2>2, <3>1 DEF Count
    <3>3. UnreadOf(e) \in Nat /\ UnreadOf(e) <= Cardinality(RowsOf(e))
      BY <1>1, RowsOfType
    <3> QED BY <1>2, <3>2, <3>3
  <2>3. counting'[k] = counting[k] \/ Count(k)
    BY <1>3, CallsMove
  <2> QED BY <2>1, <2>2, <2>3
<1>4. ASSUME NEW e \in Employees, unread'[e] # Nil
      PROVE  unread'[e] <= Cardinality(RowsOf(e)')
  <2>1. CASE unread'[e] = unread[e]
    <3>1. unread[e] \in Nat /\ unread[e] <= Cardinality(RowsOf(e))
      BY <1>1, <1>4, <2>1 DEF CountsAreOwn
    <3> QED BY <1>2, <2>1, <3>1
  <2>2. ASSUME NEW k \in Counters, Store(k), counting[k].of = e PROVE unread'[e] <= Cardinality(RowsOf(e)')
    <3>1. unread'[e] = counting[k].count /\ counting[k].count \in Nat
      BY <1>1, <2>2 DEF Store, Call
    <3>2. counting[k].count <= Cardinality(RowsOf(e))
      BY <2>2 DEF Store, CountsAreOwn
    <3> QED BY <1>2, <3>1, <3>2
  <2>3. \/ unread'[e] = unread[e]
        \/ \E k \in Counters : Store(k) /\ counting[k].of = e
    BY <1>4, CacheMoves
  <2> QED BY <2>1, <2>2, <2>3
<1> QED BY <1>3, <1>4 DEF CountsAreOwn

(* No count, cached or about to be, exceeds the notifications that its employee
   has had, for any number of calls at once (getUnreadCount). *)
THEOREM CountsOwn == Spec => []CountsAreOwn
<1>1. Init => CountsAreOwn
  <2> SUFFICES ASSUME Init PROVE CountsAreOwn
    OBVIOUS
  <2>1. /\ \A e \in Employees : unread[e] = Nil
        /\ \A k \in Counters : counting[k].pc = "idle"
    BY DEF Init, Idle
  <2> QED BY <2>1 DEF CountsAreOwn
<1> QED BY <1>1, InitType, NextHub, NextType, NextCounts, PTL DEF Spec

-----------------------------------------------------------------------------
(* What makes counts wrong, and what does not *)

(* A count that is about to be stored, and one that is cached, are not what
   the table says. *)
Stale(k) == counting[k].pc = "store" /\ counting[k].count # UnreadOf(counting[k].of)
Outdated(e) == unread[e] \notin {Nil, UnreadOf(e)}

(* While nothing is announced or read, no call takes a wrong count, and the
   cache turns wrong only by a call that took its count before, and that is
   done with it then: each of them harms once, and whatever runs beside it
   harms not at all (getUnreadCount).  What remains of CountsSettle is that
   calls end and keys expire. *)
OldCountsOnly ==
    [][rows' = rows =>
         /\ \A k \in Counters : Stale(k)' => Stale(k)
         /\ \A e \in Employees :
               Outdated(e)' => \/ Outdated(e)
                               \/ \E k \in Counters : /\ Stale(k) /\ counting[k].of = e
                                                      /\ ~Stale(k)']_vars

(* While nothing is announced or read, the cache of counts turns wrong only by
   a call that counted before (getUnreadCount), with any number of calls. *)
THEOREM OnlyOldCountsHarm == Spec => OldCountsOnly
<1> DEFINE Harmless ==
        rows' = rows =>
          /\ \A k \in Counters : Stale(k)' => Stale(k)
          /\ \A e \in Employees :
                Outdated(e)' => \/ Outdated(e)
                                \/ \E k \in Counters : /\ Stale(k) /\ counting[k].of = e
                                                       /\ ~Stale(k)'
<1>1. ASSUME TypeOK, [Next]_vars PROVE Harmless
  <2> SUFFICES ASSUME rows' = rows
               PROVE  /\ \A k \in Counters : Stale(k)' => Stale(k)
                      /\ \A e \in Employees :
                            Outdated(e)' => \/ Outdated(e)
                                            \/ \E k \in Counters : /\ Stale(k) /\ counting[k].of = e
                                                                   /\ ~Stale(k)'
    OBVIOUS
  <2>1. counting \in [Counters -> Call] /\ unread \in [Employees -> Nat \cup {Nil}]
    BY <1>1 DEF TypeOK, Call
  <2>2. \A e : UnreadOf(e)' = UnreadOf(e)
    BY DEF UnreadOf, RowsOf
  <2>3. ASSUME NEW k \in Counters, Stale(k)' PROVE Stale(k)
    <3>1. counting'[k].pc = "store" /\ counting'[k].count # UnreadOf(counting'[k].of)
      BY <2>2, <2>3 DEF Stale
    <3>2. ~Count(k)
      <4>1. ASSUME Count(k) PROVE FALSE
        <5>1. PICK e : e = counting[k].of
          OBVIOUS
        <5>2. counting'[k] = [pc |-> "store", of |-> e, count |-> UnreadOf(e)]
          BY <2>1, <4>1, <5>1 DEF Count
        <5> QED BY <3>1, <5>2
      <4> QED BY <4>1
    <3>3. counting'[k] = counting[k]
      BY <1>1, <3>1, <3>2, CallsMove
    <3> QED BY <3>1, <3>3 DEF Stale
  <2>4. ASSUME NEW e \in Employees, Outdated(e)', ~Outdated(e)
        PROVE  \E k \in Counters : Stale(k) /\ counting[k].of = e /\ ~Stale(k)'
    <3>1. unread'[e] # Nil /\ unread'[e] # UnreadOf(e) /\ unread'[e] # unread[e]
      BY <2>2, <2>4 DEF Outdated
    <3>2. PICK k \in Counters : Store(k) /\ counting[k].of = e
      BY <1>1, <3>1, CacheMoves
    <3>3. unread'[e] = counting[k].count /\ counting[k].pc = "store" /\ counting'[k] = Idle
      BY <2>1, <3>2 DEF Store
    <3>4. Stale(k)
      BY <3>1, <3>2, <3>3 DEF Stale
    <3>5. ~Stale(k)'
      BY <3>3 DEF Stale, Idle
    <3> QED BY <3>2, <3>4, <3>5
  <2> QED BY <2>3, <2>4
<1>2. TypeOK /\ [Next]_vars => [Harmless]_vars
  BY <1>1
<1>3. Spec => [][Harmless]_vars
  BY <1>2, InitType, NextHub, NextType, PTL DEF Spec
<1> QED BY <1>3 DEF OldCountsOnly

-----------------------------------------------------------------------------
(* How often people are told *)

RowsBy(t) == {i \in DOMAIN rows : rows[i].by = t}

(* A transaction leaves one row for each announcement it made, or two: the
   insert is repeated once, if at all, and nobody else inserts in its name
   (createNotification, KnexService.create). *)
ToldOnceOrTwice ==
    \A t \in Transactions : Cardinality(RowsBy(t)) \in handler[t].told .. (2 * handler[t].told)

NewHasToldNobody == \A t \in Transactions : handler[t].pc = "new" => handler[t].told = 0

(* What an announcement adds. *)
LEMMA NotifyAdds ==
    ASSUME TypeOK, NEW t \in Transactions, Notify(t)
    PROVE  /\ \A s \in Transactions \ {t} : RowsBy(s)' = RowsBy(s)
           /\ \/ RowsBy(t)' = RowsBy(t) \cup {Len(rows) + 1}
              \/ RowsBy(t)' = RowsBy(t) \cup {Len(rows) + 1, Len(rows) + 2}
<1> DEFINE row == [to |-> handler[t].plan[handler[t].told + 1], by |-> t, isRead |-> FALSE]
<1>1. row \in Row /\ row.by = t
  BY NextTold DEF Notify, Row
<1>2. PICK inserted \in {<<row>>, <<row, row>>} : rows' = rows \o inserted
  BY DEF Notify
<1>3. rows \in Seq(Row) /\ Len(rows) \in Nat /\ DOMAIN rows = 1..Len(rows)
  BY LenProperties DEF TypeOK, Row
<1> HIDE DEF row
<1>4. /\ inserted \in Seq(Row) /\ Len(inserted) \in {1, 2}
      /\ \A i \in 1..Len(inserted) : inserted[i] = row
  <2>1. CASE inserted = <<row>>
    BY <1>1, <2>1
  <2>2. CASE inserted = <<row, row>>
    BY <1>1, <2>2
  <2> QED BY <1>2, <2>1, <2>2
<1>5. PICK n \in {1, 2} : n = Len(inserted)
  BY <1>4
<1>6. /\ Len(rows') = Len(rows) + n /\ DOMAIN rows' = 1..(Len(rows) + n)
      /\ \A i \in 1..(Len(rows) + n) : rows'[i] = IF i <= Len(rows) THEN rows[i] ELSE row
  <2>1. /\ rows' \in Seq(Row) /\ Len(rows') = Len(rows) + n
        /\ \A i \in 1..Len(rows') : rows'[i] = IF i <= Len(rows) THEN rows[i] ELSE inserted[i - Len(rows)]
    BY <1>2, <1>3, <1>4, <1>5, ConcatProperties
  <2>2. DOMAIN rows' = 1..(Len(rows) + n)
    BY <2>1, LenProperties
  <2>3. \A i \in 1..(Len(rows) + n) : ~(i <= Len(rows)) => inserted[i - Len(rows)] = row
    BY <1>3, <1>4, <1>5
  <2> QED BY <2>1, <2>2, <2>3
<1>7. PICK old \in Nat : old = Len(rows)
  BY <1>3
<1>8. ASSUME NEW s \in Transactions
      PROVE  RowsBy(s)' = RowsBy(s) \cup {i \in (old + 1)..(old + n) : s = t}
  <2>1. RowsBy(s)' = {i \in 1..(old + n) : rows'[i].by = s}
    BY <1>6, <1>7 DEF RowsBy
  <2>2. RowsBy(s) = {i \in 1..old : rows[i].by = s}
    BY <1>3, <1>7 DEF RowsBy
  <2>3. \A i \in 1..(old + n) : rows'[i].by = IF i <= old THEN rows[i].by ELSE t
    BY <1>1, <1>6, <1>7
  <2> QED BY <2>1, <2>2, <2>3
<1>9. \A s \in Transactions \ {t} : RowsBy(s)' = RowsBy(s)
  <2>1. ASSUME NEW s \in Transactions \ {t} PROVE RowsBy(s)' = RowsBy(s)
    BY <1>8, <2>1
  <2> QED BY <2>1
<1>10. RowsBy(t)' = RowsBy(t) \cup ((old + 1)..(old + n))
  BY <1>8
<1>11. CASE n = 1
  <2>1. (old + 1)..(old + 1) = {old + 1}
    OBVIOUS
  <2> QED BY <1>7, <1>9, <1>10, <1>11, <2>1
<1>12. CASE n = 2
  <2>1. (old + 1)..(old + 2) = {old + 1, old + 2}
    OBVIOUS
  <2> QED BY <1>7, <1>9, <1>10, <1>12, <2>1
<1> QED BY <1>11, <1>12

(* Nobody else adds rows. *)
LEMMA OthersAddNothing ==
    ASSUME TypeOK, [Next]_vars, \A t \in Transactions : ~Notify(t), NEW s
    PROVE  RowsBy(s)' = RowsBy(s)
<1>1. \A i \in DOMAIN rows : rows[i] \in Row
  <2>1. rows \in Seq(Row) /\ DOMAIN rows = 1..Len(rows)
    BY LenProperties DEF TypeOK, Row
  <2> QED BY <2>1, ElementOfSeq
<1>2. CASE rows' = rows
  BY <1>2 DEF RowsBy
<1>3. ASSUME NEW i \in DOMAIN rows, MarkAsRead(i) PROVE RowsBy(s)' = RowsBy(s)
  <2>1. /\ DOMAIN rows' = DOMAIN rows
        /\ \A j \in DOMAIN rows : rows'[j].by = rows[j].by
    BY <1>1, <1>3 DEF MarkAsRead, Row
  <2> QED BY <2>1 DEF RowsBy
<1>4. ASSUME NEW e \in Employees, MarkAllAsRead(e) PROVE RowsBy(s)' = RowsBy(s)
  <2>1. /\ DOMAIN rows' = DOMAIN rows
        /\ \A j \in DOMAIN rows : rows'[j].by = rows[j].by
    BY <1>1, <1>4 DEF MarkAllAsRead, Row
  <2> QED BY <2>1 DEF RowsBy
<1>5. \/ rows' = rows
      \/ \E i \in DOMAIN rows : MarkAsRead(i)
      \/ \E e \in Employees : MarkAllAsRead(e)
  BY DEF Next, vars, table, HubStep, Begin, Commit, Abort, Expire, Goes, Look, Count, Store,
     Lost, GetUnreadCount
<1> QED BY <1>2, <1>3, <1>4, <1>5

LEMMA NextToldOnceOrTwice ==
    ASSUME TypeOK, NewHasToldNobody, ToldOnceOrTwice, [Next]_vars
    PROVE  NewHasToldNobody' /\ ToldOnceOrTwice'
<1>1. handler \in [Transactions -> Handler] /\ Len(rows) \in Nat /\ DOMAIN rows = 1..Len(rows)
  BY LenProperties DEF TypeOK, Handler
<1>2. \A t \in Transactions : IsFiniteSet(RowsBy(t)) /\ Cardinality(RowsBy(t)) \in Nat
  <2>1. \A t \in Transactions : RowsBy(t) \in SUBSET (1..Len(rows)) /\ IsFiniteSet(1..Len(rows))
    BY <1>1, FS_Interval DEF RowsBy
  <2> QED BY <2>1, FS_Subset, FS_CardinalityType
<1>3. ASSUME NEW t \in Transactions, Notify(t)
      PROVE  NewHasToldNobody' /\ ToldOnceOrTwice'
  <2>1. /\ handler'[t].pc = "open" /\ handler'[t].told = handler[t].told + 1 /\ handler[t].told \in Nat
        /\ \A s \in Transactions \ {t} : handler'[s] = handler[s]
    BY <1>1, <1>3 DEF Notify, Handler
  <2>2. PICK n \in Nat, told \in Nat : /\ n = Cardinality(RowsBy(t)) /\ told = handler[t].told
                                       /\ n \in told..(2 * told)
    BY <1>2, <2>1 DEF ToldOnceOrTwice
  <2>3. Cardinality(RowsBy(t)') \in {n + 1, n + 2}
    <3>1. Len(rows) + 1 \notin RowsBy(t)
      BY <1>1 DEF RowsBy
    <3>2. /\ IsFiniteSet(RowsBy(t) \cup {Len(rows) + 1})
          /\ Cardinality(RowsBy(t) \cup {Len(rows) + 1}) = n + 1
      BY <1>2, <2>2, <3>1, FS_AddElement
    <3>3. Len(rows) + 2 \notin RowsBy(t) \cup {Len(rows) + 1}
      BY <1>1 DEF RowsBy
    <3>4. Cardinality((RowsBy(t) \cup {Len(rows) + 1}) \cup {Len(rows) + 2}) = n + 2
      <4>1. Cardinality((RowsBy(t) \cup {Len(rows) + 1}) \cup {Len(rows) + 2}) = (n + 1) + 1
        BY <3>2, <3>3, FS_AddElement
      <4> QED BY <4>1
    <3>5. (RowsBy(t) \cup {Len(rows) + 1}) \cup {Len(rows) + 2}
              = RowsBy(t) \cup {Len(rows) + 1, Len(rows) + 2}
      OBVIOUS
    <3> QED BY <1>3, <3>2, <3>4, <3>5, NotifyAdds
  <2>4. Cardinality(RowsBy(t)') \in handler'[t].told..(2 * handler'[t].told)
    BY <2>1, <2>2, <2>3
  <2>5. \A s \in Transactions \ {t} : RowsBy(s)' = RowsBy(s)
    BY <1>3, NotifyAdds
  <2> QED BY <2>1, <2>4, <2>5 DEF NewHasToldNobody, ToldOnceOrTwice
<1>4. ASSUME \A t \in Transactions : ~Notify(t)
      PROVE  NewHasToldNobody' /\ ToldOnceOrTwice'
  <2>1. ASSUME NEW t \in Transactions
        PROVE  /\ handler'[t].told = handler[t].told
               /\ handler'[t].pc = "new" => handler[t].pc = "new"
    <3>1. ASSUME NEW s \in Transactions, Begin(s) \/ Commit(s) \/ Abort(s)
          PROVE  /\ handler'[t].told = handler[t].told
                 /\ handler'[t].pc = "new" => handler[t].pc = "new"
      BY <1>1, <3>1 DEF Begin, Commit, Abort, Handler, NewHasToldNobody
    <3>2. \/ handler' = handler
          \/ \E s \in Transactions : Begin(s) \/ Commit(s) \/ Abort(s)
      BY <1>4 DEF Next, vars, table, HubStep, MarkAsRead, MarkAllAsRead, Expire, Goes, Look, Count,
         Store, Lost, GetUnreadCount
    <3> QED BY <3>1, <3>2
  <2>2. \A t \in Transactions : RowsBy(t)' = RowsBy(t)
    BY <1>4, OthersAddNothing
  <2> QED BY <2>1, <2>2 DEF NewHasToldNobody, ToldOnceOrTwice
<1> QED BY <1>3, <1>4

(* Nobody is told of a step more than twice, with any number of transactions
   and whatever fails (KnexService.create). *)
THEOREM ToldAtMostTwice == Spec => []ToldOnceOrTwice
<1>1. Init => NewHasToldNobody /\ ToldOnceOrTwice
  <2> SUFFICES ASSUME Init PROVE NewHasToldNobody /\ ToldOnceOrTwice
    OBVIOUS
  <2>1. \A t \in Transactions : handler[t].told = 0 /\ RowsBy(t) = {}
    BY DEF Init, RowsBy
  <2>2. \A t \in Transactions : Cardinality(RowsBy(t)) = 0
    BY <2>1, FS_EmptySet
  <2> QED BY <2>1, <2>2 DEF NewHasToldNobody, ToldOnceOrTwice
<1> QED BY <1>1, InitType, NextHub, NextType, NextToldOnceOrTwice, PTL DEF Spec
=============================================================================

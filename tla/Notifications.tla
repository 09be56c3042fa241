---------------------------- MODULE Notifications ----------------------------
(***************************************************************************)
(* NotificationService: rows that handlers of approvals insert from inside *)
(* their open transactions, on connections of their own; the pushes to the *)
(* clients of SocketHub; and the cached number of unread notifications.    *)
(*                                                                         *)
(* A push does not await getUnreadCount, so the count it starts runs on    *)
(* beside everything that follows, as those of GET unread-count do.        *)
(***************************************************************************)
EXTENDS SocketHub, Sequences, FiniteSets

CONSTANTS Transactions,  \* handlers that announce something
          Plans,         \* whom they may have to tell, in order
          Counters,      \* calls of getUnreadCount that run at once
          MaxRows,       \* bound: notifications
          Nil

ASSUME NotificationsAssumption ==
    /\ Plans \subseteq Seq(Employees)
    /\ Nil \notin Nat
    /\ Nil \notin Employees
    /\ MaxRows \in Nat

VARIABLES handler,   \* where each transaction is, whom it tells and whom it has told
          rows,      \* the table notifications
          counting,  \* the calls of getUnreadCount
          unread     \* the cached counts, notification:unread:{code}

table == <<handler, rows>>
vars == <<hub, table, counting, unread>>

RowsOf(e) == {i \in DOMAIN rows : rows[i].to = e}
UnreadOf(e) == Cardinality({i \in RowsOf(e) : ~rows[i].isRead})
Idle == [pc |-> "idle", of |-> Nil, count |-> 0]

Begin(t) ==
    /\ handler[t].pc = "new"
    /\ \E plan \in Plans : handler' = [handler EXCEPT ![t] = [pc |-> "open", plan |-> plan, told |-> 0]]
    /\ UNCHANGED <<hub, rows, counting, unread>>

(* getUnreadCount, called and not awaited for a client that is connected. *)
Push(e) ==
    IF TargetsOf(e) = {} THEN counting' = counting
    ELSE \E k \in Counters :
            /\ counting[k] = Idle
            /\ counting' = [counting EXCEPT ![k] = [pc |-> "look", of |-> e, count |-> 0]]

(* createNotification for the next of the plan.  The insert is repeated if it
   fails, though its row may be there.  The key that is deleted at the end is
   one that nothing is cached under. *)
Notify(t) ==
    LET h == handler[t]
        e == h.plan[h.told + 1]
        row == [to |-> e, by |-> t, isRead |-> FALSE]
    IN  /\ h.pc = "open"
        /\ h.told < Len(h.plan)
        /\ \E inserted \in {<<row>>, <<row, row>>} :
              /\ Len(rows) + Len(inserted) <= MaxRows
              /\ rows' = rows \o inserted
        /\ handler' = [handler EXCEPT ![t].told = @ + 1]
        /\ Push(e)
        /\ UNCHANGED <<hub, unread>>

CommitEarly(t) ==
    /\ handler[t].pc = "open"
    /\ handler' = [handler EXCEPT ![t].pc = "committed"]
    /\ UNCHANGED <<hub, rows, counting, unread>>

Commit(t) ==
    /\ handler[t].pc = "open"
    /\ handler[t].told = Len(handler[t].plan)
    /\ handler' = [handler EXCEPT ![t].pc = "committed"]
    /\ UNCHANGED <<hub, rows, counting, unread>>

(* Rolled back: what was announced stays announced. *)
Abort(t) ==
    /\ handler[t].pc = "open"
    /\ handler' = [handler EXCEPT ![t].pc = "failed"]
    /\ UNCHANGED <<hub, rows, counting, unread>>

MarkAsRead(i) ==
    /\ i \in DOMAIN rows /\ ~rows[i].isRead
    /\ rows' = [rows EXCEPT ![i].isRead = TRUE]
    /\ UNCHANGED <<hub, handler, counting, unread>>

MarkAllAsRead(e) ==
    /\ UnreadOf(e) > 0
    /\ rows' = [i \in DOMAIN rows |-> IF i \in RowsOf(e) THEN [rows[i] EXCEPT !.isRead = TRUE] ELSE rows[i]]
    /\ UNCHANGED <<hub, handler, counting, unread>>

GetUnreadCount(k, e) ==
    /\ counting[k] = Idle
    /\ counting' = [counting EXCEPT ![k] = [pc |-> "look", of |-> e, count |-> 0]]
    /\ UNCHANGED <<hub, table, unread>>

Look(k) ==
    /\ counting[k].pc = "look"
    /\ counting' = [counting EXCEPT ![k] =
           IF unread[counting[k].of] # Nil THEN Idle ELSE [@ EXCEPT !.pc = "count"]]
    /\ UNCHANGED <<hub, table, unread>>

CountTotal(k) ==
    /\ counting[k].pc = "count"
    /\ counting' = [counting EXCEPT ![k].pc = "store",
           ![k].count = Cardinality({i \in DOMAIN rows : ~rows[i].isRead})]
    /\ UNCHANGED <<hub, table, unread>>

Count(k) ==
    /\ counting[k].pc = "count"
    /\ counting' = [counting EXCEPT ![k] =
           [pc |-> "store", of |-> @.of, count |-> UnreadOf(@.of)]]
    /\ UNCHANGED <<hub, table, unread>>

Store(k) ==
    /\ counting[k].pc = "store"
    /\ unread' = [unread EXCEPT ![counting[k].of] = counting[k].count]
    /\ counting' = [counting EXCEPT ![k] = Idle]
    /\ UNCHANGED <<hub, table>>

(* Redis or the database fails in a call that nobody awaits. *)
Lost(k) ==
    /\ counting[k] # Idle
    /\ counting' = [counting EXCEPT ![k] = Idle]
    /\ UNCHANGED <<hub, table, unread>>

NeverExpire(e) == FALSE /\ UNCHANGED vars
Expire(e) ==
    /\ unread[e] # Nil
    /\ unread' = [unread EXCEPT ![e] = Nil]
    /\ UNCHANGED <<hub, table, counting>>

Init ==
    /\ HubInit
    /\ handler = [t \in Transactions |-> [pc |-> "new", plan |-> <<>>, told |-> 0]]
    /\ rows = <<>>
    /\ counting = [k \in Counters |-> Idle]
    /\ unread = [e \in Employees |-> Nil]

HubStep == (Heartbeat \/ \E c \in Clients : ClientStep(c)) /\ UNCHANGED <<table, counting, unread>>
Goes(k) == Look(k) \/ Count(k) \/ Store(k) \/ Lost(k)

Next ==
    \/ HubStep
    \/ \E t \in Transactions : Begin(t) \/ Notify(t) \/ Commit(t) \/ Abort(t)
    \/ \E i \in DOMAIN rows : MarkAsRead(i)
    \/ \E e \in Employees : MarkAllAsRead(e) \/ Expire(e)
    \/ \E k \in Counters : Goes(k) \/ \E e \in Employees : GetUnreadCount(k, e)

Spec == Init /\ [][Next]_vars

(* The interval fires, awaits are answered, entries live no longer than
   their TTL. *)
FairSpec ==
    /\ Spec
    /\ WF_vars(Heartbeat /\ UNCHANGED <<table, counting, unread>>)
    /\ \A k \in Counters : WF_vars(Goes(k))
    /\ \A e \in Employees : WF_vars(Expire(e))

-----------------------------------------------------------------------------
(* Types, those of the hub included. *)
TypeOK ==
    /\ HubTypeOK
    /\ handler \in [Transactions -> [pc : {"new", "open", "committed", "failed"},
                                     plan : Plans \cup {<<>>}, told : Nat]]
    /\ \A t \in Transactions : handler[t].told <= Len(handler[t].plan)
    /\ rows \in Seq([to : Employees, by : Transactions, isRead : BOOLEAN])
    /\ counting \in [Counters -> [pc : {"idle", "look", "count", "store"},
                                  of : Employees \cup {Nil}, count : Nat]]
    /\ \A k \in Counters : counting[k].pc # "idle" => counting[k].of \in Employees
    /\ unread \in [Employees -> Nat \cup {Nil}]

(* Whatever is committed has been announced to everyone it concerns; the
   opposite does not hold, since rows outlive a rollback
   (updateApprovalContinuous). *)
CommittedIsAnnounced ==
    \A t \in Transactions : handler[t].pc = "committed" =>
        \A n \in DOMAIN handler[t].plan :
            \E i \in RowsOf(handler[t].plan[n]) : rows[i].by = t

(* No count, cached or about to be, exceeds the notifications that its
   employee has ever had, however late it is stored (getUnreadCount). *)
CountsAreOwn ==
    /\ \A e \in Employees : unread[e] # Nil => unread[e] <= Cardinality(RowsOf(e))
    /\ \A k \in Counters : counting[k].pc = "store" =>
           counting[k].count <= Cardinality(RowsOf(counting[k].of))

(* Once nothing is announced or read any more, the cache comes to hold
   current counts only, although no write deletes one. *)
CountsSettle ==
    \A e \in Employees : <>[](unread[e] \in {Nil, UnreadOf(e)})

(* A client that is gone does not stay in the way of another one of the same
   employee, to which pushes go only if it is the oldest. *)
LiveClientsAreReached ==
    \A c \in Clients : Gone(c) ~> \A e \in Employees : c \notin TargetsOf(e)
=============================================================================

------------------------------ MODULE SocketHub ------------------------------
(***************************************************************************)
(* WebSocketUtil: the clients that are connected, and the heartbeat that   *)
(* finds out which of them are gone without a word.                        *)
(***************************************************************************)
EXTENDS Naturals

CONSTANTS Clients,     \* connections, numbered as they are opened
          Employees,
          EmployeeOf   \* whose token a connection carries

ASSUME ClientsAssumption ==
    /\ Clients \subseteq Nat
    /\ EmployeeOf \in [Clients -> Employees]

VARIABLES clients,   \* those in the Map of clients
          isAlive,
          wire,      \* the connection itself; "last": gone, a pong still on its way
          missed     \* heartbeats since the connection was gone, up to 2

hub == <<clients, isAlive, wire, missed>>

Gone(c) == wire[c] \in {"last", "gone"}

(* A Map is walked in the order of registration: sendRealtimeNotification
   takes the oldest client of the employee. *)
TargetsOf(e) ==
    {c \in clients : EmployeeOf[c] = e /\ \A d \in clients : EmployeeOf[d] = e => c <= d}

Connect(c) ==
    /\ wire[c] = "new"
    /\ \A d \in Clients : d < c => wire[d] # "new"
    /\ wire' = [wire EXCEPT ![c] = "up"]
    /\ clients' = clients \cup {c}
    /\ isAlive' = [isAlive EXCEPT ![c] = TRUE]
    /\ UNCHANGED missed

Pong(c) ==
    /\ wire[c] \in {"up", "last"}
    /\ isAlive' = [isAlive EXCEPT ![c] = TRUE]
    /\ wire' = [wire EXCEPT ![c] = IF @ = "last" THEN "gone" ELSE @]
    /\ UNCHANGED <<clients, missed>>

CloseKeepsClient(c) ==
    /\ wire[c] = "up"
    /\ wire' = [wire EXCEPT ![c] = "closed"]
    /\ UNCHANGED <<clients, isAlive, missed>>

Close(c) ==
    /\ wire[c] = "up"
    /\ wire' = [wire EXCEPT ![c] = "closed"]
    /\ clients' = clients \ {c}
    /\ isAlive' = [isAlive EXCEPT ![c] = FALSE]
    /\ UNCHANGED missed

(* The network or the machine of the client fails and nobody is told.  A
   pong may be on its way if the ping of the last beat had come through. *)
Vanish(c) ==
    /\ wire[c] = "up"
    /\ \/ wire' = [wire EXCEPT ![c] = "gone"]
       \/ ~isAlive[c] /\ wire' = [wire EXCEPT ![c] = "last"]
    /\ UNCHANGED <<clients, isAlive, missed>>

(* Terminates the clients that have not answered the ping of the last beat
   and pings the others. *)
Unanswered == {c \in clients : ~isAlive[c]}
Terminate(C) ==
    /\ clients' = clients \ C
    /\ wire' = [c \in Clients |-> IF c \in C THEN "closed" ELSE wire[c]]
    /\ missed' = [c \in Clients |-> IF c \notin C /\ Gone(c) /\ missed[c] < 2
                                    THEN missed[c] + 1 ELSE missed[c]]
BeatWithoutReset == Terminate(Unanswered) /\ UNCHANGED isAlive
Heartbeat == Terminate(Unanswered) /\ isAlive' = [c \in Clients |-> FALSE]

HubInit ==
    /\ clients = {}
    /\ isAlive = [c \in Clients |-> FALSE]
    /\ wire = [c \in Clients |-> "new"]
    /\ missed = [c \in Clients |-> 0]

ClientStep(c) == Connect(c) \/ Pong(c) \/ Close(c) \/ Vanish(c)

-----------------------------------------------------------------------------
(* Types; the Map holds the clients that are connected as far as the server
   can know. *)
HubTypeOK ==
    /\ clients = {c \in Clients : wire[c] \in {"up", "last", "gone"}}
    /\ isAlive \in [Clients -> BOOLEAN]
    /\ wire \in [Clients -> {"new", "up", "last", "gone", "closed"}]
    /\ missed \in [Clients -> 0..2]

(* A client that is gone outlives one heartbeat, never two, wherever its last
   pong overtakes the beat (startHeartbeat). *)
SilentClientsAreDropped == \A c \in clients : Gone(c) => missed[c] <= 1
=============================================================================

-------------------------- MODULE ConnectionsManager --------------------------
(***************************************************************************)
(* The phones connected to the middleware (classes/ConnectionsManager.js   *)
(* and classes/Connection.js).  A socket accepted by socket.io becomes a   *)
(* Connection kept in pendingConnections until the phone announces its     *)
(* device uuid, then in connections.  The current statuses are sent on     *)
(* arrival, live messages only to connections.                             *)
(*                                                                         *)
(* node runs a handler to its end, so each handler is one action.  What    *)
(* interleaves is the handlers of different sockets, the messages spread   *)
(* and the transport, which hands over what was emitted one message at a   *)
(* time and drops the rest when the socket closes.  Socket ids are unique: *)
(* a phone that reconnects is another socket.                              *)
(*                                                                         *)
(* spread, snapshot, joinedAt and received are history variables; no guard *)
(* reads them but the bound on spread.                                     *)
(***************************************************************************)
EXTENDS Naturals, Sequences

CONSTANTS
  Sockets,    \* the sockets that may ever connect
  DeviceIds,  \* device uuids phones announce
  PushIds,    \* push registration ids phones announce
  Null,       \* JavaScript null
  Messages,   \* messages as far as their delivery goes
  Snapshots,  \* what sendCurrentStatusToConnection may send on arrival
  MaxSpread   \* bound: messages spread in a behaviour

ASSUME MessagesAssumption == Snapshots \subseteq Seq(Messages)
ASSUME IdsAssumption == Null \notin DeviceIds /\ Null \notin PushIds
ASSUME MaxSpreadAssumption == MaxSpread \in Nat

VARIABLES
  listening,           \* the socket.io server accepts sockets
  socketState,         \* of each socket: "new", "open" or "closed"
  connections,         \* this.connections: ready sockets
  pendingConnections,  \* this.pendingConnections: no uuid announced yet
  deviceUUID,          \* Connection.deviceUUID
  pushRegistrationId,  \* Connection.pushRegistrationId
  outbox,              \* emitted to the socket, not yet at the phone
  spread, snapshot, joinedAt, received

ids == <<deviceUUID, pushRegistrationId>>
history == <<spread, snapshot, joinedAt, received>>
vars == <<listening, socketState, connections, pendingConnections, ids,
          outbox, history>>

Held == connections \cup pendingConnections

-----------------------------------------------------------------------------
(* The constructor of the manager. *)
Init ==
  /\ listening = FALSE
  /\ socketState = [s \in Sockets |-> "new"]
  /\ connections = {}
  /\ pendingConnections = {}
  /\ deviceUUID = [s \in Sockets |-> Null]
  /\ pushRegistrationId = [s \in Sockets |-> Null]
  /\ outbox = [s \in Sockets |-> <<>>]
  /\ spread = <<>>
  /\ snapshot = [s \in Sockets |-> <<>>]
  /\ joinedAt = [s \in Sockets |-> 0]
  /\ received = [s \in Sockets |-> <<>>]

StartListening ==
  /\ ~listening
  /\ listening' = TRUE
  /\ UNCHANGED <<socketState, connections, pendingConnections, ids, outbox,
                 history>>

(* newConnection(): file the Connection as pending and send it the current
   statuses q, in the same handler. *)
NewConnection(s, q) ==
  /\ listening
  /\ socketState[s] = "new"
  /\ socketState' = [socketState EXCEPT ![s] = "open"]
  /\ pendingConnections' = pendingConnections \cup {s}
  /\ outbox' = [outbox EXCEPT ![s] = q]
  /\ snapshot' = [snapshot EXCEPT ![s] = q]
  /\ UNCHANGED <<listening, connections, ids, spread, joinedAt, received>>

(* A 'pushid' event: remembered in the Connection, nothing else. *)
SetPushUUID(s, p) ==
  /\ socketState[s] = "open"
  /\ pushRegistrationId' = [pushRegistrationId EXCEPT ![s] = p]
  /\ UNCHANGED <<listening, socketState, connections, pendingConnections,
                 deviceUUID, outbox, history>>

(* A 'deviceuuid' event, the first or a later one: setDeviceUUID() calls
   setConnectionAsReady().  The callback to the push table is conjoined where
   the managers are composed. *)
SetDeviceUUID(s, u) ==
  /\ socketState[s] = "open"
  /\ deviceUUID' = [deviceUUID EXCEPT ![s] = u]
  /\ connections' = connections \cup {s}
  /\ pendingConnections' = pendingConnections \ {s}
  /\ joinedAt' = IF s \in connections THEN joinedAt
                 ELSE [joinedAt EXCEPT ![s] = Len(spread)]
  /\ UNCHANGED <<listening, socketState, pushRegistrationId, outbox, spread,
                 snapshot, received>>

(* Mutated forms of Emitted(s, m): a pending socket gets m too; a socket with a
   message under way is passed over; m overtakes what is under way; m is sent
   as a list. *)
EmittedToAll(s, m) == IF s \in Held THEN Append(outbox[s], m) ELSE outbox[s]

EmittedToIdle(s, m) ==
  IF s \in connections /\ outbox[s] = <<>> THEN <<m>> ELSE outbox[s]

EmittedOvertaking(s, m) ==
  IF s \in connections THEN <<m>> \o outbox[s] ELSE outbox[s]

EmittedAsList(s, m) ==
  IF s \in connections THEN Append(outbox[s], <<m>>) ELSE outbox[s]

Emitted(s, m) ==
  IF s \in connections THEN Append(outbox[s], m) ELSE outbox[s]

(* spreadMessage(): emit to every connection of the dictionary. *)
SpreadMessage(m) ==
  /\ Len(spread) < MaxSpread
  /\ outbox' = [s \in Sockets |-> Emitted(s, m)]
  /\ spread' = Append(spread, m)
  /\ UNCHANGED <<listening, socketState, connections, pendingConnections, ids,
                 snapshot, joinedAt, received>>

(* Sockets S end: socket.io reports 'disconnect' for each, and what they had
   not received is lost. *)
Drop(S) ==
  /\ socketState' = [s \in Sockets |-> IF s \in S THEN "closed"
                                       ELSE socketState[s]]
  /\ outbox' = [s \in Sockets |-> IF s \in S THEN <<>> ELSE outbox[s]]

(* A mutated form: a socket that was never ready is kept. *)
PendingAfterKept(s) == pendingConnections

PendingAfter(s) == pendingConnections \ {s}

(* A 'disconnect' event: processDisconnection() deletes the socket from
   whichever dictionary holds it. *)
ProcessDisconnection(s) ==
  /\ socketState[s] = "open"
  /\ Drop({s})
  /\ connections' = connections \ {s}
  /\ pendingConnections' = PendingAfter(s)
  /\ UNCHANGED <<listening, ids, history>>

(* stopListening(): disconnect() reports 'disconnect' at once, so each socket
   held is also deleted while the loops run. *)
StopListening ==
  /\ listening
  /\ listening' = FALSE
  /\ Drop(Held)
  /\ connections' = {}
  /\ pendingConnections' = {}
  /\ UNCHANGED <<ids, history>>

(* The transport hands the phone the oldest message emitted to it. *)
Deliver(s) ==
  /\ outbox[s] # <<>>
  /\ outbox' = [outbox EXCEPT ![s] = Tail(@)]
  /\ received' = [received EXCEPT ![s] = Append(@, Head(outbox[s]))]
  /\ UNCHANGED <<listening, socketState, connections, pendingConnections, ids,
                 spread, snapshot, joinedAt>>

Next ==
  \/ StartListening
  \/ StopListening
  \/ \E m \in Messages : SpreadMessage(m)
  \/ \E s \in Sockets :
       \/ \E q \in Snapshots : NewConnection(s, q)
       \/ \E p \in PushIds : SetPushUUID(s, p)
       \/ \E u \in DeviceIds : SetDeviceUUID(s, u)
       \/ ProcessDisconnection(s)
       \/ Deliver(s)

(* An open transport delivers or fails: socket.io closes a socket whose
   heartbeat is lost.  Nothing else is bound to happen. *)
Fairness == \A s \in Sockets : WF_vars(Deliver(s))

Spec == Init /\ [][Next]_vars /\ Fairness

-----------------------------------------------------------------------------
(* Each field has the kind of value the code stores in it. *)
TypeOK ==
  /\ listening \in BOOLEAN
  /\ socketState \in [Sockets -> {"new", "open", "closed"}]
  /\ connections \subseteq Sockets
  /\ pendingConnections \subseteq Sockets
  /\ deviceUUID \in [Sockets -> DeviceIds \cup {Null}]
  /\ pushRegistrationId \in [Sockets -> PushIds \cup {Null}]
  /\ outbox \in [Sockets -> Seq(Messages)]
  /\ spread \in Seq(Messages)
  /\ snapshot \in [Sockets -> Seq(Messages)]
  /\ joinedAt \in [Sockets -> Nat]
  /\ received \in [Sockets -> Seq(Messages)]

(* The dictionaries account for the open sockets: each is in exactly one of
   them, in connections exactly when its uuid is known, and no closed socket
   is left behind to be written to. *)
SocketsAccounted ==
  /\ Held = {s \in Sockets : socketState[s] = "open"}
  /\ connections \cap pendingConnections = {}
  /\ \A s \in Held : s \in connections <=> deviceUUID[s] # Null

(* The state of the session as the phone would describe it. *)
Phase(s) ==
  CASE s \in connections -> "ready"
    [] s \in pendingConnections -> "pending"
    [] socketState[s] = "new" -> "new"
    [] OTHER -> "gone"

Feed == INSTANCE EventFeed WITH phase <- [s \in Sockets |-> Phase(s)]

(* Whatever interleaving of arrivals, announcements, broadcasts and
   departures: what the phone has plus what is on its way is exactly its
   stream, nothing doubled, lost or reordered, and nothing is on its way to a
   socket the manager does not hold. *)
FeedExact ==
  \A s \in Sockets :
    IF s \in Held
    THEN /\ received[s] \o outbox[s] = Feed!Stream(s)
         /\ joinedAt[s] <= Len(spread)
    ELSE /\ outbox[s] = <<>>
         /\ socketState[s] = "new" => received[s] = <<>> /\ snapshot[s] = <<>>

(* The dictionaries and buffers implement the feed promised to phones. *)
ImplementsFeed == Feed!Spec

(* A message spread to a ready phone reaches it unless it disconnects. *)
EveryMessageArrives == Feed!EveryMessageArrives
=============================================================================

--------------------------------- MODULE Phone ---------------------------------
(***************************************************************************)
(* How the phone finds the middleware and announces itself: the start of   *)
(* the application (client classes/NetworkCockpit.js), the address the user*)
(* enters (ConfigInterfaceController.js), the socket (IOSocketManager.js)  *)
(* and the push registration (PushManager.js).                             *)
(*                                                                         *)
(* io.connect() makes an engine at once and another one for every attempt  *)
(* to connect again.  What is emitted while an engine is opening waits in  *)
(* its buffer and leaves when the transport is open; the 'connect' event   *)
(* comes later, when the server has answered.  What is emitted to an engine*)
(* that is closed is lost with it.  The sockets of a phone are numbered in *)
(* the order their transports open.                                        *)
(*                                                                         *)
(* early is a history variable: no guard reads it.                         *)
(***************************************************************************)
EXTENDS Naturals, Sequences

CONSTANTS
  Services,
  DeviceUUID,     \* device.uuid, which the device keeps
  PushIds,        \* ids the push service may give
  Null,           \* JavaScript null
  Addresses,      \* addresses the user may enter
  ServerAddress,  \* the one at which the middleware listens
  MaxSockets,     \* bound: transports that open
  MaxRuns         \* bound: starts of the application

SocketNumbers == 1..MaxSockets
Emits == [event : {"pushid"}, id : PushIds]
         \cup [event : {"deviceuuid"}, id : {DeviceUUID}]

VARIABLES
  address,         \* localStorage: server-address
  runs,            \* starts of the application so far
  engine,          \* "none", "opening", "open", "connected" or "closed"
  socket,          \* the last socket whose transport opened, 0 if none did
  buffer,          \* the writeBuffer of an opening engine
  uplink,          \* per socket, emitted by the phone and still to be handled
  registrationId,  \* PushManager.registrationId
  shown,           \* per service, the timestamp EventsManager holds, 0 if none
  early            \* per socket, the push id emitted on it ahead of the uuid

linkVars == <<engine, socket, buffer, uplink, early>>
appVars == <<address, runs, registrationId, shown>>
vars == <<linkVars, appVars>>

(* The socket the phone hears and writes to. *)
Current(s) == s = socket /\ engine \in {"open", "connected"}

-----------------------------------------------------------------------------
(* NetworkCockpit.run() with the address stored: without one the login page is
   shown; with one startIOSocket() and startPushManager() begin anew.  A reload
   ends the engine of the run before; what it emitted may still arrive. *)
Run(addr) ==
  /\ runs < MaxRuns
  /\ runs' = runs + 1
  /\ address' = addr
  /\ engine' = IF addr = Null THEN "none" ELSE "opening"
  /\ buffer' = <<>>
  /\ registrationId' = Null
  /\ shown' = [k \in Services |-> 0]
  /\ UNCHANGED <<socket, uplink, early>>

(* The application is closed and started again. *)
Restart == Run(address)

(* setMiddlewareConfiguration(), from the login page of the first start or of
   the main page: store the address and reload. *)
SetMiddlewareConfiguration == \E addr \in Addresses : Run(addr)

(* sendPushRegistrationId(): where an emitted pushid goes. *)
Emit(m) ==
  /\ buffer' = IF engine = "opening" THEN Append(buffer, m) ELSE buffer
  /\ uplink' = [s \in SocketNumbers |-> IF Current(s) THEN Append(uplink[s], m)
                                  ELSE uplink[s]]

(* The 'registration' event, once a run, whenever the push service answers. *)
Registered(p) ==
  /\ engine # "none"
  /\ registrationId = Null
  /\ registrationId' = p
  /\ Emit([event |-> "pushid", id |-> p])
  /\ early' = [s \in SocketNumbers |-> IF Current(s) /\ engine = "open" THEN p
                                 ELSE early[s]]
  /\ UNCHANGED <<address, runs, shown, engine, socket>>

(* A mutated form: what was emitted before the transport opened is dropped. *)
FlushedNever == <<>>

Flushed == buffer

(* The transport opens and takes the buffer along. *)
Open(s) ==
  /\ engine = "opening"
  /\ address = ServerAddress
  /\ s = socket + 1 /\ s \in SocketNumbers
  /\ engine' = "open"
  /\ socket' = s
  /\ buffer' = <<>>
  /\ uplink' = [uplink EXCEPT ![s] = Flushed]
  /\ early' = [early EXCEPT ![s] = IF buffer = <<>> THEN Null ELSE Head(buffer).id]
  /\ UNCHANGED appVars

(* The 'connect' event: sendDeviceUUID(). *)
Connect ==
  /\ engine = "open"
  /\ engine' = "connected"
  /\ Emit([event |-> "deviceuuid", id |-> DeviceUUID])
  /\ UNCHANGED <<appVars, socket, early>>

(* The engine fails to open, or its transport ends. *)
Close ==
  /\ engine \in {"opening", "open", "connected"}
  /\ engine' = "closed"
  /\ buffer' = <<>>
  /\ UNCHANGED <<appVars, socket, uplink, early>>

(* The manager of socket.io makes another engine. *)
Reconnect ==
  /\ engine = "closed"
  /\ engine' = "opening"
  /\ UNCHANGED <<appVars, socket, buffer, uplink, early>>

(* newMessageArrived(): addEvent() replaces what is held of the service. *)
NewMessageArrived(k, timestamp) ==
  /\ engine = "connected"
  /\ shown' = [shown EXCEPT ![k] = timestamp]
  /\ UNCHANGED <<linkVars, address, runs, registrationId>>

(* An emitted event reaches the server. *)
Handled(s) ==
  /\ uplink[s] # <<>>
  /\ uplink' = [uplink EXCEPT ![s] = Tail(@)]
  /\ UNCHANGED <<appVars, engine, socket, buffer, early>>

(* The application is installed, and started for the first time. *)
Init ==
  /\ address = Null
  /\ runs = 1
  /\ engine = "none"
  /\ socket = 0
  /\ buffer = <<>>
  /\ uplink = [s \in SocketNumbers |-> <<>>]
  /\ registrationId = Null
  /\ shown = [k \in Services |-> 0]
  /\ early = [s \in SocketNumbers |-> Null]

TypeOK ==
  /\ address \in Addresses \cup {Null}
  /\ runs \in 1..MaxRuns
  /\ engine \in {"none", "opening", "open", "connected", "closed"}
  /\ socket \in 0..MaxSockets
  /\ buffer \in Seq(Emits)
  /\ uplink \in [SocketNumbers -> Seq(Emits)]
  /\ registrationId \in PushIds \cup {Null}
  /\ shown \in [Services -> Nat]
  /\ early \in [SocketNumbers -> PushIds \cup {Null}]
=============================================================================

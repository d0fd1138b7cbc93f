---------------------------------- MODULE Dogz ----------------------------------
(***************************************************************************)
(* A phone and the middleware: Phone and Middleware joined by the transport*)
(* of socket.io.  What each side emits on a socket reaches the other in    *)
(* order or not at all.  The two sides learn of the end of a socket at     *)
(* different times, so the phone may be on a new one while the middleware  *)
(* still holds the old, and what the phone had emitted on the old may still*)
(* be handled.                                                             *)
(***************************************************************************)
EXTENDS Middleware

CONSTANTS
  DeviceUUID,     \* the uuid of the phone
  Addresses, ServerAddress, MaxSockets, MaxRuns

ASSUME SocketsAssumption == MaxSockets \in Nat /\ Sockets = 1..MaxSockets
ASSUME RunsAssumption == MaxRuns \in Nat \ {0}
ASSUME DeviceAssumption ==
  DeviceUUID \in DeviceIds /\ Null \notin DeviceIds /\ Null \notin PushIds

VARIABLES
  address, runs, engine, socket, buffer, uplink, registrationId, shown, early

App == INSTANCE Phone

phoneVars == <<address, runs, engine, socket, buffer, uplink, registrationId,
               shown, early>>
dogzVars == <<vars, phoneVars>>

-----------------------------------------------------------------------------
(* The transport of the phone opens: newConnection() at the middleware. *)
Arrive(s) == App!Open(s) /\ NewConnection(s)

(* The middleware handles what the phone emitted first. *)
Handle(s) ==
  /\ App!Handled(s)
  /\ LET m == Head(uplink[s])
     IN  \/ m.event = "pushid" /\ SetPushUUID(s, m.id)
         \/ m.event = "deviceuuid" /\ SetDeviceUUID(s, m.id)

(* The phone hears the oldest message on the socket it has; what is left on
   another is dropped when the middleware notices its end. *)
Hear(s) ==
  /\ App!Current(s)
  /\ Deliver(s)
  /\ LET e == EventOf(Head(outbox[s]))
     IN  App!NewMessageArrived(e.service, e.timestamp)

(* The heartbeat of a socket the phone is no longer on is missed. *)
NoticeEnd(s) == ~App!Current(s) /\ ProcessDisconnection(s) /\ UNCHANGED phoneVars

PhoneStep ==
  /\ \/ App!Restart
     \/ App!SetMiddlewareConfiguration
     \/ \E p \in PushIds : App!Registered(p)
     \/ App!Connect
     \/ App!Close
     \/ App!Reconnect
  /\ UNCHANGED vars

ServerStep ==
  /\ \/ Run
     \/ Crash
     \/ Persist
     \/ \E k \in Services : \/ MissResult(k)
                            \/ \E r \in Reports : ProcessMessage(k, r)
     \/ \E s \in Sockets : ProcessDisconnection(s)
  /\ UNCHANGED phoneVars

DogzInit == Init /\ App!Init

DogzNext ==
  \/ PhoneStep
  \/ ServerStep
  \/ \E s \in Sockets : Arrive(s) \/ Handle(s) \/ Hear(s)

(* On a socket both sides hold, what was emitted is handled and the phone gets
   the answer that makes it announce itself; a write ends; a heartbeat is missed. *)
Fairness ==
  /\ WF_dogzVars(App!Connect /\ socketState[socket] = "open" /\ UNCHANGED vars)
  /\ WF_dogzVars(Persist /\ UNCHANGED phoneVars)
  /\ \A s \in Sockets : WF_dogzVars(Handle(s)) /\ WF_dogzVars(NoticeEnd(s))

DogzSpec == DogzInit /\ [][DogzNext]_dogzVars /\ Fairness

-----------------------------------------------------------------------------
DogzTypeOK == TypeOK /\ App!TypeOK

(* While the application runs, what it shows of a service never goes back in time:
   not when it reconnects and is sent everything again, not when it is on a new
   socket before the middleware notices the end of the old one, and not when
   the middleware loses its board in a restart. *)
PhoneNeverGoesBack ==
  [][runs' = runs => \A k \in Services : shown'[k] >= shown[k]]_dogzVars

(* The push table has the phone exactly if an id was on its way ahead of the uuid
   on some socket: a phone whose push service answers after `connect', or while
   no engine is opening, is in no table, and one whose service answered
   in time is there as soon as it is ready. *)
RegisteredExactlyWhenEarly ==
  LET ids == {early[s] : s \in Sockets} \ {Null}
  IN  /\ up => devices[DeviceUUID] \in ids \cup {Null}
      /\ \A s \in connections :
           early[s] # Null => devices[DeviceUUID] \in ids

(* An id ahead of the uuid gets into the table, unless the socket ends: whatever
   the middleware and the disk do meanwhile, a phone that announced itself in
   order is not forgotten. *)
EarlyIdsAreStored ==
  \A s \in Sockets :
    (socketState[s] = "open" /\ early[s] # Null)
      ~> (devices[DeviceUUID] # Null \/ socketState[s] = "closed")
=============================================================================

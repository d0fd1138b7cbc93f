------------------------------ MODULE Middleware ------------------------------
(***************************************************************************)
(* The middleware process (index.js, classes/Middleware.js): the status    *)
(* board, the phones connected and the push table, put together by the     *)
(* handlers that call more than one of them.  Each component is an         *)
(* instance of its own module over this module's variables, and an action  *)
(* here is the conjunction of the calls one handler makes.                 *)
(*                                                                         *)
(* Nagios numbers the results of a service in order (timestamp).  PUB/SUB  *)
(* drops what it cannot hand over, and what Nagios publishes while the     *)
(* process is down is lost: MissResult.  What reaches the process is in    *)
(* order.  Any uncaught exception, such as the one JSON.parse throws on a  *)
(* text that is no JSON, ends the process: Crash.                          *)
(*                                                                         *)
(* log, spread, snapshot, joinedAt, received, past, overlapped, alerts and *)
(* arrivedAt are history variables.                                        *)
(***************************************************************************)
EXTENDS Naturals, Sequences, FiniteSets

CONSTANTS
  Services, Reports, NoStatus, MaxHistoricData, MaxEvents,
  Sockets, DeviceIds, PushIds, Null, MaxSpread,
  Absent, Truncated, Garbled, MaxWrites, MaxCrashes

VARIABLES
  statuses, log,
  listening, socketState, connections, pendingConnections, deviceUUID,
  pushRegistrationId, outbox, spread, snapshot, joinedAt, received,
  up, devices, file, writes, crashes, past, overlapped,
  produced,   \* of each service: how many results Nagios has produced
  alerts,     \* history: the push notifications of this process, in order
  arrivedAt   \* history: how much had been spread when a socket arrived

Board == INSTANCE CurrentStatuses

ASSUME ServicesAssumption == IsFiniteSet(Services)
ASSUME NoStatusAssumption == NoStatus \notin Board!Status
ASSUME MaxEventsAssumption == MaxEvents \in Nat

(* A message carries a result as it came, or a whole status entry. *)
Messages == Board!Event \cup Board!Status

Phones == INSTANCE ConnectionsManager WITH Snapshots <- Seq(Board!Status)
Push == INSTANCE PushManager

boardVars == <<statuses, log, alerts>>
phonesVars == <<listening, socketState, connections, pendingConnections,
                deviceUUID, pushRegistrationId, outbox, spread, snapshot,
                joinedAt, received>>
pushVars == <<up, devices, file, writes, crashes, past, overlapped>>
vars == <<boardVars, phonesVars, pushVars, produced, arrivedAt>>

(* The result a message is about. *)
EventOf(m) == IF m \in Board!Status THEN m.event ELSE m

-----------------------------------------------------------------------------
(* getAll() walks two dictionaries: the entries come in some order. *)
Orderings(S) ==
  {q \in [1..Cardinality(S) -> S] : \A i, j \in DOMAIN q : q[i] = q[j] => i = j}

(* isMessageSuitedForPush(): a problem that is hard, not in downtime and not
   acknowledged. *)
IsMessageSuitedForPush(e) ==
  /\ e.report.state # 0
  /\ e.report.scheduled_downtime_depth = 0
  /\ e.report.problem_has_been_acknowledged = 0
  /\ e.report.state_type = 1

(* A mutated form: devices without an id count too. *)
RegistrationTokensWithNull == {devices[u] : u \in DeviceIds}

(* sendAlert(): the ids of all devices in the table. *)
RegistrationTokens == {devices[u] : u \in DeviceIds} \ {Null}

(* doPush(), called when updateStatus() reports a change. *)
DoPush(e) ==
  alerts' = IF Board!HasChanged(e) /\ IsMessageSuitedForPush(e)
            THEN Append(alerts, [event |-> e, to |-> RegistrationTokens])
            ELSE alerts

-----------------------------------------------------------------------------
Init ==
  /\ Board!Init
  /\ Phones!Init
  /\ Push!Init
  /\ produced = [k \in Services |-> 0]
  /\ alerts = <<>>
  /\ arrivedAt = [s \in Sockets |-> 0]

(* index.js: construct the managers, recovering the push table, and run(). *)
Run ==
  /\ Push!Start
  /\ Phones!StartListening
  /\ UNCHANGED <<boardVars, produced, arrivedAt>>

(* Nagios produces a result. *)
Produce(k) ==
  /\ produced[k] < MaxEvents
  /\ produced' = [produced EXCEPT ![k] = @ + 1]

(* processMessage(): the board, the push and the broadcast in one handler. *)
ProcessMessage(k, r) ==
  LET e == [service |-> k, timestamp |-> produced[k] + 1, report |-> r]
  IN  /\ listening
      /\ Produce(k)
      /\ Board!UpdateStatus(e)
      /\ DoPush(e)
      /\ Phones!SpreadMessage(e)
      /\ UNCHANGED <<pushVars, arrivedAt>>

MissResult(k) ==
  /\ Produce(k)
  /\ UNCHANGED <<boardVars, phonesVars, pushVars, arrivedAt>>

(* newConnection(), with the statuses of this moment. *)
NewConnection(s) ==
  /\ \E q \in Orderings(Board!GetAll) : Phones!NewConnection(s, q)
  /\ arrivedAt' = [arrivedAt EXCEPT ![s] = Len(spread)]
  /\ UNCHANGED <<boardVars, pushVars, produced>>

SetPushUUID(s, p) ==
  /\ Phones!SetPushUUID(s, p)
  /\ UNCHANGED <<boardVars, pushVars, produced, arrivedAt>>

(* setDeviceUUID() ends in the callback of startWebSocketServer(): the device
   joins the push table with the push id announced so far, if any. *)
SetDeviceUUID(s, u) ==
  /\ Phones!SetDeviceUUID(s, u)
  /\ Push!AddDevice(u, pushRegistrationId[s])
  /\ UNCHANGED <<boardVars, produced, arrivedAt>>

ProcessDisconnection(s) ==
  /\ Phones!ProcessDisconnection(s)
  /\ UNCHANGED <<boardVars, pushVars, produced, arrivedAt>>

Deliver(s) ==
  /\ Phones!Deliver(s)
  /\ UNCHANGED <<boardVars, pushVars, produced, arrivedAt>>

Persist ==
  /\ Push!Persist
  /\ UNCHANGED <<boardVars, phonesVars, produced, arrivedAt>>

(* The process ends: memory is lost and every socket closes. *)
Crash ==
  /\ Push!Crash
  /\ Phones!StopListening
  /\ statuses' = [k \in Services |-> NoStatus]
  /\ log' = [k \in Services |-> <<>>]
  /\ alerts' = <<>>
  /\ UNCHANGED <<produced, arrivedAt>>

Next ==
  \/ Run
  \/ Crash
  \/ Persist
  \/ \E k \in Services : MissResult(k) \/ \E r \in Reports : ProcessMessage(k, r)
  \/ \E s \in Sockets :
       \/ NewConnection(s)
       \/ \E p \in PushIds : SetPushUUID(s, p)
       \/ \E u \in DeviceIds : SetDeviceUUID(s, u)
       \/ ProcessDisconnection(s)
       \/ Deliver(s)

Spec == Init /\ [][Next]_vars

-----------------------------------------------------------------------------
(* What the composition adds to the types of its components: every message
   is a result or a status entry, and Nagios is ahead of the board. *)
TypeOK ==
  /\ Board!TypeOK
  /\ Phones!TypeOK
  /\ Push!TypeOK
  /\ produced \in [Services -> 0..MaxEvents]
  /\ alerts \in Seq([event : Board!Event, to : SUBSET PushIds])
  /\ arrivedAt \in [Sockets -> 0..Len(spread)]

(* The i-th result of a service starts an alertable problem: it is suited for
   push and the result before it had another state or state type. *)
StartsProblem(k, i) ==
  /\ i > 1
  /\ IsMessageSuitedForPush(log[k][i])
  /\ \/ log[k][i].report.state # log[k][i-1].report.state
     \/ log[k][i].report.state_type # log[k][i-1].report.state_type

(* Exactly one notification for each alertable problem that starts after the
   first result of its service, in the order the results came, and none for
   its repetitions, its recovery, its soft phase or a muted problem. *)
AlertsExact ==
  /\ {alerts[n].event : n \in DOMAIN alerts}
       = UNION {{log[k][i] : i \in {j \in DOMAIN log[k] : StartsProblem(k, j)}}
                : k \in Services}
  /\ \A m, n \in DOMAIN alerts :
       m < n /\ alerts[m].event.service = alerts[n].event.service
         => alerts[m].event.timestamp < alerts[n].event.timestamp

(* What a phone has and what is on its way to it. *)
Stream(s) == received[s] \o outbox[s]

(* A phone never goes back in time: of each service its stream holds results
   in strictly increasing order, through the switch from the snapshot to live
   messages, lost results and restarts of the middleware. *)
StreamOrdered ==
  \A s \in Sockets : \A i, j \in DOMAIN Stream(s) :
    LET a == EventOf(Stream(s)[i])
        b == EventOf(Stream(s)[j])
    IN  i < j /\ a.service = b.service => a.timestamp < b.timestamp

(* The stream of s brings the phone up to the board on service k. *)
Current(s, k) ==
  \E i \in DOMAIN Stream(s) : EventOf(Stream(s)[i]) = statuses[k].event

(* The newest result of k was spread while s was pending. *)
WentOutWhilePending(s, k) ==
  \E i \in (arrivedAt[s] + 1)..Len(spread) :
    /\ s \in connections => i <= joinedAt[s]
    /\ spread[i] = statuses[k].event

(* The one way a connected phone can be behind the board on a service is that
   the newest result was spread while its connection was pending. *)
BehindOnlyByPendingGap ==
  \A s \in connections \cup pendingConnections, k \in Services :
    Board!Known(k) => Current(s, k) \/ WentOutWhilePending(s, k)

-----------------------------------------------------------------------------
(* What README.md promises, "dumps data directly from Nagios Core to
   browser": a ready phone with nothing on its way shows the board.  The gap
   between connecting and announcing the uuid breaks it. *)
ReadyPhoneIsCurrent ==
  \A s \in connections, k \in Services :
    Board!Known(k) => Current(s, k)
=============================================================================

--------------------------- MODULE CurrentStatuses ---------------------------
(***************************************************************************)
(* The status board of the middleware (classes/CurrentStatuses.js): for    *)
(* every service the last check result processed and a bounded history of  *)
(* the results before it.  A service is a <host_name, service_description> *)
(* pair: the two nested dictionaries of the code are one function here,    *)
(* and NoStatus is the JavaScript `undefined' of a missing key.            *)
(*                                                                         *)
(* The variable log is a history variable: every result processed for the  *)
(* service since the process started.  No action reads it.                 *)
(***************************************************************************)
EXTENDS Naturals, Sequences

CONSTANTS
  Services,         \* the monitored services
  Reports,          \* what a check can say: the part of a result that repeats
  NoStatus,         \* "no entry in the dictionary"
  MaxHistoricData,  \* length of the history kept, 20 in the code
  MaxEvents         \* bound: results per service a behaviour explores

(* What the middleware reads of a result; `timestamp' tells results apart. *)
Event == [service : Services, timestamp : Nat, report : Reports]

Status == [event : Event, historicData : Seq(Event)]

ASSUME ReportsAssumption ==
  Reports \subseteq [state : 0..3, state_type : 0..1,
                     scheduled_downtime_depth : Nat,
                     problem_has_been_acknowledged : 0..1]
ASSUME BoundsAssumption == MaxHistoricData \in Nat /\ MaxEvents \in Nat
ASSUME NoStatusAssumption == NoStatus \notin Status

VARIABLES
  statuses,  \* this.statuses
  log        \* history variable: the results processed, per service

vars == <<statuses, log>>

-----------------------------------------------------------------------------
(* Helpers of the class.                                                   *)

Known(k) == statuses[k] # NoStatus

(* getAll(): the entry of every service that has one. *)
GetAll == {statuses[k] : k \in {s \in Services : Known(s)}}

(* A mutated form: the state type is not looked at. *)
HasChangedInState(e) ==
  Known(e.service) /\ e.report.state # statuses[e.service].event.report.state

(* hasChanged(): a first result is not a change, and only state and
   state_type are compared, so a new downtime or acknowledgement is not. *)
HasChanged(e) ==
  /\ Known(e.service)
  /\ LET current == statuses[e.service].event.report
     IN  \/ e.report.state # current.state
         \/ e.report.state_type # current.state_type

(* A mutated form: the history is cut one result early. *)
ShiftedEarly(h) == IF Len(h) >= MaxHistoricData THEN Tail(h) ELSE h

(* The most recent results of h, one dropped from the front beyond the cap. *)
Shifted(h) == IF Len(h) > MaxHistoricData THEN Tail(h) ELSE h

(* A mutated form: a service seen for the first time gets no list. *)
FirstHistoricUndefined == NoStatus

FirstHistoric == <<>>

(* addHistoric(): nothing is pushed for a service seen for the first time. *)
Historic(e) ==
  IF Known(e.service)
  THEN Shifted(Append(statuses[e.service].historicData, e))
  ELSE FirstHistoric

-----------------------------------------------------------------------------
(* The constructor: an empty board. *)
Empty ==
  /\ statuses = [k \in Services |-> NoStatus]
  /\ log = [k \in Services |-> <<>>]

(* updateStatus(): the history is extended before the entry is replaced. *)
UpdateStatus(e) ==
  /\ statuses' = [statuses EXCEPT ![e.service] =
                    [event |-> e, historicData |-> Historic(e)]]
  /\ log' = [log EXCEPT ![e.service] = Append(@, e)]

(* The results of one service carry increasing timestamps. *)
Process(k, r) ==
  /\ Len(log[k]) < MaxEvents
  /\ UpdateStatus([service |-> k, timestamp |-> Len(log[k]) + 1, report |-> r])

Init == Empty

Next == \E k \in Services, r \in Reports : Process(k, r)

Spec == Init /\ [][Next]_vars

-----------------------------------------------------------------------------
(* The last n elements of a sequence that has at least n. *)
Latest(s, n) == [i \in 1..n |-> s[Len(s) - n + i]]

AtMost(a, b) == IF a <= b THEN a ELSE b

(* Every entry is a status of its own service, and the history variable
   holds results of that service. *)
TypeOK ==
  /\ statuses \in [Services -> Status \cup {NoStatus}]
  /\ log \in [Services -> Seq(Event)]

(* The board is a faithful digest of what was processed: a service has an
   entry exactly when it had a result, the entry shows the newest result, and
   its history is the unbroken run of the newest results, oldest first,
   without the very first one, cut to MaxHistoricData. *)
HistoryIsWindow ==
  \A k \in Services :
    /\ Known(k) <=> log[k] # <<>>
    /\ Known(k) =>
         LET n == Len(log[k])
         IN  /\ statuses[k].event = log[k][n]
             /\ statuses[k].historicData
                  = Latest(log[k], AtMost(n - 1, MaxHistoricData))
=============================================================================

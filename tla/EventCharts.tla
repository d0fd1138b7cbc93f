------------------------------ MODULE EventCharts ------------------------------
(***************************************************************************)
(* The data of an event on the phone (client classes/Event.js) and what    *)
(* its three charts make of the history: the time per state               *)
(* (EventAvailOverviewGraph), the boxes of the state changes               *)
(* (EventAvailEvolutionGraph) and the performance data                     *)
(* (EventPerformanceGraph, MetricsParser).                                 *)
(*                                                                         *)
(* `now' is the phone's clock, which nobody keeps in step with the         *)
(* server's.  A metric is its value; a negative value stands for a text    *)
(* that parseDirtyValueString() has no match for and throws on (a negative *)
(* number, the `U' of a plugin).  Percentages are left as times and totals.*)
(***************************************************************************)
EXTENDS Integers, Sequences, SequencesExt, FiniteSets, Loops

CONSTANTS
  MaxHistoricData,  \* length of the history of an event, 20 in the code
  GraphWidth        \* pixels of the evolution chart

ASSUME ChartsAssumption ==
  MaxHistoricData \in Nat \ {0} /\ GraphWidth \in Nat

OK == 0
UNKNOWN == 3
States == OK..UNKNOWN

Past == [timestamp : Nat, return_code : Int, perf_data : Seq(Int)]
Event == [timestamp : Nat, return_code : States, historicData : Seq(Past)]

-----------------------------------------------------------------------------
(* Event.js: the data of an event. *)

(* A mutated form: the code of the check is kept as it is. *)
NormalisedNot(code) == code

(* updateEventData() puts a code that is none of the four to UNKNOWN. *)
Normalised(code) == IF code \in States THEN code ELSE UNKNOWN

(* A mutated form: a full history takes no more. *)
CappedOldest(h) ==
  IF Len(h) > MaxHistoricData THEN SubSeq(h, 1, MaxHistoricData) ELSE h

(* pushHistoricData(): the oldest give way. *)
Capped(h) ==
  IF Len(h) > MaxHistoricData
  THEN SubSeq(h, Len(h) - MaxHistoricData + 1, Len(h))
  ELSE h

(* manageHistoricData(): the history that came with the message, as it came,
   or the result itself. *)
NewHistory(msg) ==
  IF msg.historicData # <<>>
  THEN msg.historicData
  ELSE <<[msg.result EXCEPT !.return_code = Normalised(@)]>>

(* new Event() of a message, and updateEventData() with it of an event that
   holds the history `old'. *)
Updated(old, msg) ==
  [timestamp |-> msg.result.timestamp,
   return_code |-> Normalised(msg.result.return_code),
   historicData |-> Capped(old \o Capped(NewHistory(msg)))]

(* Time runs forward in a history. *)
Forward(h) ==
  \A i, j \in DOMAIN h : i < j => h[i].timestamp <= h[j].timestamp

-----------------------------------------------------------------------------
(* EventAvailOverviewGraph: seconds spent in each state until `now'. *)

(* Where the interval that starts with entry i ends. *)
Until(h, i, end) == IF i = Len(h) THEN end ELSE h[i + 1].timestamp

(* A mutated form: the clocks are taken to agree. *)
OverviewEndUntested(h, now) == now

OverviewEnd(h, now) ==
  IF now < Last(h).timestamp THEN Last(h).timestamp + 5 ELSE now

(* sumTimePerState(); statesToPct() divides by the sum of the four. *)
TimePerState(h, now) ==
  [c \in States |->
     Total([i \in DOMAIN h |->
              IF h[i].return_code = c
              THEN Until(h, i, OverviewEnd(h, now)) - h[i].timestamp
              ELSE 0])]

-----------------------------------------------------------------------------
(* EventAvailEvolutionGraph: a box per stretch of one state. *)

(* calculeTotalTime() moves renderTime on when it is not past the history. *)
RenderTime(h, now) ==
  IF now <= Last(h).timestamp THEN Last(h).timestamp + 5 ELSE now

(* Math.floor() of a quotient; what is divided by zero is no number and is
   drawn as nothing. *)
Floor(a, b) ==
  CASE b > 0 -> a \div b [] b < 0 -> (-a) \div (-b) [] OTHER -> 0

(* A mutated form: an entry is compared with the one after it. *)
StateChangesAhead(h) ==
  {i \in DOMAIN h : i = Len(h) \/ h[i].return_code # h[i + 1].return_code}

(* A box starts with the first entry and with every entry of another state than
   the one before. *)
StateChanges(h) ==
  {i \in DOMAIN h : i = 1 \/ h[i].return_code # h[i - 1].return_code}

(* mountStateChangesArray(). *)
MountStateChangesArray(h, now) ==
  LET places == Places(h, StateChanges(h))
      starts == [j \in DOMAIN places |-> h[places[j]]]
      duration(j) == Until(starts, j, RenderTime(h, now)) - starts[j].timestamp
  IN  [j \in DOMAIN starts |->
        [timestamp |-> starts[j].timestamp,
         value |-> starts[j].return_code,
         duration |-> duration(j),
         pixels |-> Floor(duration(j) * GraphWidth,
                          RenderTime(h, now) - h[1].timestamp)]]

(* drawBox() of every box: how far this.x moves. *)
Drawn(boxes) == Total([j \in DOMAIN boxes |-> boxes[j].pixels])

-----------------------------------------------------------------------------
(* EventPerformanceGraph and MetricsParser. *)

(* A mutated form: the metrics are counted from one. *)
HasMetricBefore(past, j) == Len(past.perf_data) > j

HasMetric(past, j) == Len(past.perf_data) >= j

(* renderHistoricGraph(), and renderBarGraph() of a single entry: the j-th
   series takes the j-th metric of every entry that has one.  A point is named by
   the entry it comes from. *)
Series(h) ==
  [j \in 1..Max({Len(h[i].perf_data) : i \in DOMAIN h}) |->
     Places(h, {i \in DOMAIN h : HasMetric(h[i], j)})]
=============================================================================

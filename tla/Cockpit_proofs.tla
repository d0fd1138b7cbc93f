---------------------------- MODULE Cockpit_proofs ----------------------------
(***************************************************************************)
(* Proofs about the phone, for all services, tabs and checks, every length *)
(* of the histories, of the graph of the main page and of the trail: the   *)
(* page with the details of an event, the history of an event, the list of *)
(* the problems, the list of the host page, the columns and counters of the*)
(* main page, that every field keeps its kind of value, and what the three *)
(* charts of an event show of its history.                                 *)
(***************************************************************************)
EXTENDS Cockpit, SequenceLemmas, FiniteSetTheorems

Details == "#event-details-cockpit"

(* The data of the events has the types of Event.js. *)
DataTyped ==
  /\ results \in [Services -> Seq(Past)]
  /\ servicesLastStates \in [Services -> Event \cup {NoEvent}]

PagesTyped ==
  /\ trail \in Seq(Pages) /\ trail # <<>>
  /\ evt \in Services \cup {NoEvent}
  /\ tab \in Graphs \cup {NoEvent}
  /\ charts \in [Services -> SUBSET Graphs]
  /\ DOMAIN drawn = Graphs
  /\ strayed \in BOOLEAN

(* On the details page only its event has charts; elsewhere no event has: hide()
   has destroyed them. *)
ChartsOfPage ==
  ~strayed =>
    IF Page = Details
    THEN /\ evt \in Services
         /\ \A graph \in Graphs : drawn[graph].service = evt
         /\ changes = {evt}
         /\ \A k \in Services \ {evt} : charts[k] = {}
    ELSE changes = {} /\ \A k \in Services : charts[k] = {}

DetailsInv == DataTyped /\ PagesTyped /\ ChartsOfPage /\ OpenChartCurrent

-----------------------------------------------------------------------------
(* A page that is changed to is the last of the trail. *)
LEMMA LastOfAppend ==
  ASSUME NEW S, NEW s \in Seq(S), NEW e \in S
  PROVE  Append(s, e) \in Seq(S) /\ Append(s, e) # <<>> /\ Last(Append(s, e)) = e
BY DEF Last

(* Stepping back leaves a trail. *)
LEMMA FrontOfTrail ==
  ASSUME NEW S, NEW s \in Seq(S), Len(s) > 1
  PROVE  Front(s) \in Seq(S) /\ Front(s) # <<>>
<1>1. PICK n \in Int : n = Len(s) - 1
  OBVIOUS
<1>2. 1 <= n /\ \A i \in 1..n : s[i] \in S
  BY <1>1
<1>3. SubSeq(s, 1, n) \in Seq(S)
      /\ Len(SubSeq(s, 1, n)) = IF 1 <= n THEN n - 1 + 1 ELSE 0
  BY <1>2, SubSeqProperties
<1>4. SubSeq(s, 1, n) # <<>>
  BY <1>2, <1>3
<1> QED
  BY <1>1, <1>3, <1>4 DEF Front

(* The last element of a sequence that is not empty. *)
LEMMA LastIn ==
  ASSUME NEW S, NEW s \in Seq(S), s # <<>>
  PROVE  Last(s) \in S
BY DEF Last

(* Cutting a history keeps its type. *)
LEMMA CappedTyped ==
  ASSUME NEW h \in Seq(Past)
  PROVE  Capped(h) \in Seq(Past)
<1> HIDE DEF Past
<1>1. CASE Len(h) > MaxHistoricData
  <2>1. Len(h) - MaxHistoricData + 1 \in 1..(Len(h) + 1)
    BY <1>1, ChartsAssumption
  <2>2. SubSeq(h, Len(h) - MaxHistoricData + 1, Len(h)) \in Seq(Past)
    BY <2>1
  <2> QED
    BY <1>1, <2>2 DEF Capped
<1>2. CASE ~(Len(h) > MaxHistoricData)
  BY <1>2 DEF Capped
<1> QED
  BY <1>1, <1>2

(* updateEventData() makes an event of any message. *)
LEMMA UpdatedTyped ==
  ASSUME NEW old \in Seq(Past),
         NEW msg \in [service : Services, result : Past, historicData : Seq(Past)]
  PROVE  Updated(old, msg) \in Event
<1>1. msg.result \in Past /\ msg.historicData \in Seq(Past)
  OBVIOUS
<1>2. \A code \in Int : Normalised(code) \in States /\ Normalised(code) \in Int
  BY DEF Normalised, States, OK, UNKNOWN
<1>3. msg.result.timestamp \in Nat /\ msg.result.return_code \in Int
  BY <1>1 DEF Past
<1>4. [msg.result EXCEPT !.return_code = Normalised(@)] \in Past
  BY <1>1, <1>2 DEF Past
<1>5. <<[msg.result EXCEPT !.return_code = Normalised(@)]>> \in Seq(Past)
  BY <1>4
<1>6. NewHistory(msg) \in Seq(Past)
  BY <1>1, <1>5 DEF NewHistory
<1>7. old \o Capped(NewHistory(msg)) \in Seq(Past)
  <2>1. Capped(NewHistory(msg)) \in Seq(Past)
    BY <1>6, CappedTyped
  <2> QED
    BY <2>1
<1>8. Capped(old \o Capped(NewHistory(msg))) \in Seq(Past)
  BY <1>7, CappedTyped
<1> QED
  BY <1>2, <1>3, <1>8 DEF Updated, Event

(* The history of an event is a sequence of results, empty before the first. *)
LEMMA HistoryTyped ==
  ASSUME DataTyped, NEW k \in Services
  PROVE  HistoricData(k) \in Seq(Past)
<1>1. <<>> \in Seq(Past)
  OBVIOUS
<1>2. CASE Known(k)
  <2>1. servicesLastStates[k] \in Event
    BY <1>2 DEF DataTyped, Known
  <2>2. servicesLastStates[k].historicData \in Seq(Past)
    BY <2>1 DEF Event
  <2> QED
    BY <1>2, <2>2 DEF HistoricData
<1> QED
  BY <1>1, <1>2 DEF HistoricData

(* A result the server made of a check. *)
LEMMA NewResultTyped ==
  ASSUME DataTyped, NEW k \in Services, NEW check \in Checks, NewResult(k, check)
  PROVE  /\ results' \in [Services -> Seq(Past)]
         /\ Last(results'[k]) \in Past
<1> DEFINE new == [timestamp |-> check.gap + (IF results[k] = <<>> THEN 0
                                              ELSE Last(results[k]).timestamp),
                   return_code |-> check.return_code, perf_data |-> check.perf_data]
<1>1. results[k] \in Seq(Past)
  BY DEF DataTyped
<1>2. (IF results[k] = <<>> THEN 0 ELSE Last(results[k]).timestamp) \in Nat
  <2>1. CASE results[k] # <<>>
    <3>1. Last(results[k]) \in Past
      BY <1>1, <2>1, LastIn
    <3>2. Last(results[k]).timestamp \in Nat
      BY <3>1 DEF Past
    <3> QED
      BY <2>1, <3>2
  <2> QED
    BY <2>1
<1>3. check.gap \in Nat /\ check.return_code \in Int /\ check.perf_data \in Seq(Int)
  BY ChecksAssumption
<1>4. new \in Past
  BY <1>2, <1>3 DEF Past
<1>5. results' = [results EXCEPT ![k] = Append(@, new)]
  BY DEF NewResult
<1> HIDE DEF new
<1>6. Append(results[k], new) \in Seq(Past) /\ Append(results[k], new) # <<>>
      /\ Last(Append(results[k], new)) = new
  BY <1>1, <1>4, LastOfAppend
<1>7. results'[k] = Append(results[k], new)
  BY <1>5 DEF DataTyped
<1>8. results' \in [Services -> Seq(Past)]
  BY <1>5, <1>6 DEF DataTyped
<1> QED
  BY <1>4, <1>6, <1>7, <1>8

-----------------------------------------------------------------------------
(* A step that leaves the details page and what it shows alone, and the data of
   every event but for the results the phone has not been given. *)
LEMMA DetailsUntouched ==
  ASSUME DetailsInv, results' \in [Services -> Seq(Past)],
         UNCHANGED <<servicesLastStates, trail, strayed, evt, tab, charts, drawn,
                     changes>>
  PROVE  DetailsInv'
BY DEF DetailsInv, DataTyped, PagesTyped, ChartsOfPage, OpenChartCurrent, Page,
       HistoricData, Known

(* addEvent() draws the visible chart again with the history the event has got;
   a chart that is not visible is not the one in the open tab. *)
LEMMA AddEventKeeps ==
  ASSUME DetailsInv, results' \in [Services -> Seq(Past)],
         NEW msg \in [service : Services, result : Past, historicData : Seq(Past)],
         AddEvent(msg)
  PROVE  DetailsInv'
<1> DEFINE k == msg.service
           event == Updated(HistoricData(k), msg)
<1>1. k \in Services
  OBVIOUS
<1>2. event \in Event /\ event # NoEvent
  BY <1>1, HistoryTyped, UpdatedTyped, NoEventAssumption DEF DetailsInv
<1>3. servicesLastStates' = [servicesLastStates EXCEPT ![k] = event]
      /\ UNCHANGED <<evt, tab, changes, evts, trail, strayed>>
  BY DEF AddEvent, pageVars
<1>4. \/ UNCHANGED <<charts, drawn>> /\ Visible(k) = {}
      \/ \E g \in Visible(k) : Rerender(g, k, event.historicData)
      \/ \E g \in Visible(k) : RerenderThrows(g, k, event.historicData)
  BY DEF AddEvent, chartVars
<1> HIDE DEF k, event
<1>5. DataTyped'
  BY <1>1, <1>2, <1>3 DEF DetailsInv, DataTyped
<1>6. /\ (HistoricData(k))' = event.historicData
      /\ \A j \in Services \ {k} : (HistoricData(j))' = HistoricData(j)
  <2>1. \A j \in Services : servicesLastStates'[j] =
          IF j = k THEN event ELSE servicesLastStates[j]
    BY <1>1, <1>3 DEF DetailsInv, DataTyped
  <2>2. k' = k
    BY DEF k
  <2> QED
    BY <1>1, <1>2, <2>1, <2>2 DEF HistoricData, Known
<1>7. Page' = Page
  BY <1>3 DEF Page
<1>8. CASE UNCHANGED <<charts, drawn>> /\ Visible(k) = {}
  <2>1. PagesTyped' /\ ChartsOfPage'
    BY <1>3, <1>7, <1>8 DEF DetailsInv, PagesTyped, ChartsOfPage
  <2>2. OpenChartCurrent'
    <3> SUFFICES ASSUME ~strayed, Page = Details, tab \in charts[evt]
                 PROVE  drawn[tab] = [service |-> evt,
                                      historicData |-> (HistoricData(evt))']
      BY <1>3, <1>7, <1>8 DEF OpenChartCurrent, Details
    <3>1. evt \in Services \ {k}
      <4>1. evt # k
        BY <1>8 DEF Visible, Details
      <4> QED
        BY <4>1 DEF DetailsInv, ChartsOfPage
    <3> QED
      BY <1>3, <1>6, <3>1 DEF DetailsInv, OpenChartCurrent, Details
  <2> QED
    BY <1>5, <2>1, <2>2 DEF DetailsInv
<1>9. ASSUME NEW g \in Visible(k),
             \/ Rerender(g, k, event.historicData)
             \/ RerenderThrows(g, k, event.historicData)
      PROVE  DetailsInv'
  <2>1. Page = Details /\ g = tab /\ g \in charts[k]
    BY <1>9 DEF Visible, Details
  <2>2. g \in Graphs
    BY <1>1, <2>1 DEF DetailsInv, PagesTyped
  <2>3. ~strayed => k = evt
    BY <1>1, <2>1 DEF DetailsInv, ChartsOfPage
  <2>4. CASE Rerender(g, k, event.historicData)
    <3>1. charts' = charts
          /\ drawn' = [graph \in Graphs |-> IF graph \in {g}
               THEN [service |-> k, historicData |-> event.historicData]
               ELSE drawn[graph]]
      BY <2>4 DEF Rerender, Draw
    <3>2. PagesTyped'
      BY <1>3, <3>1 DEF DetailsInv, PagesTyped
    <3>3. ChartsOfPage'
      BY <1>3, <1>7, <2>1, <2>3, <3>1 DEF DetailsInv, ChartsOfPage
    <3>4. OpenChartCurrent'
      BY <1>3, <1>6, <2>1, <2>2, <2>3, <3>1 DEF OpenChartCurrent
    <3> QED
      BY <1>5, <3>2, <3>3, <3>4 DEF DetailsInv
  <2>5. CASE RerenderThrows(g, k, event.historicData)
    <3>1. charts' = [charts EXCEPT ![k] = @ \ {g}] /\ drawn' = drawn
      BY <2>5 DEF RerenderThrows
    <3>2. PagesTyped'
      BY <1>1, <1>3, <3>1 DEF DetailsInv, PagesTyped
    <3>3. ChartsOfPage'
      BY <1>1, <1>3, <1>7, <2>1, <2>3, <3>1
         DEF DetailsInv, PagesTyped, ChartsOfPage
    <3>4. OpenChartCurrent'
      BY <1>1, <1>3, <2>1, <2>3, <3>1 DEF DetailsInv, PagesTyped, OpenChartCurrent
    <3> QED
      BY <1>5, <3>2, <3>3, <3>4 DEF DetailsInv
  <2> QED
    BY <1>9, <2>4, <2>5
<1> QED
  BY <1>4, <1>8, <1>9

(* A step from a page that is not the details page to another such page. *)
LEMMA OtherPage ==
  ASSUME DetailsInv, NEW page \in Pages \ {Details}, Page # Details,
         ChangePage(page),
         UNCHANGED <<results, servicesLastStates, strayed, evt, tab, charts, drawn,
                     changes>>
  PROVE  DetailsInv'
<1>1. trail' \in Seq(Pages) /\ trail' # <<>> /\ Page' = page
  BY LastOfAppend DEF DetailsInv, PagesTyped, ChangePage, Page
<1> QED
  BY <1>1 DEF DetailsInv, DataTyped, PagesTyped, ChartsOfPage, OpenChartCurrent,
              Details

(* A click on an event from a page where no event has charts renders all three. *)
LEMMA ShowEventKeeps ==
  ASSUME DetailsInv, NEW k \in Services, ShowEvent(k)
  PROVE  DetailsInv'
<1> DEFINE h == HistoricData(k)
           order == [g \in Graphs |->
             CASE g = Performance -> 1 [] g = Overview -> 2 [] OTHER -> 3]
           failing == {g \in Graphs \ charts[k] : Throws(g, h)}
           rendered == {g \in Graphs \ charts[k] :
                          \A f \in failing : order[g] < order[f]}
<1>1. Page # Details
  BY DEF ShowEvent, Details, Page
<1>2. /\ UNCHANGED <<results, servicesLastStates, tab>>
      /\ evt' = k
      /\ charts' = [charts EXCEPT ![k] = @ \cup rendered]
      /\ drawn' = [graph \in Graphs |-> IF graph \in rendered
                    THEN [service |-> k, historicData |-> h] ELSE drawn[graph]]
  BY DEF ShowEvent, Draw, eventVars
<1>3. \/ failing # {} /\ strayed' = TRUE /\ trail' = trail
      \/ /\ failing = {} /\ changes' = changes \cup {k} /\ strayed' = strayed
         /\ ChangePage(Details)
  BY DEF ShowEvent, Details
<1>4. rendered \subseteq Graphs /\ (failing = {} => rendered = Graphs \ charts[k])
  OBVIOUS
<1>5. h' = h
  BY <1>2 DEF HistoricData, Known
<1> HIDE DEF h, order, failing, rendered
<1>6. trail' \in Seq(Pages) /\ trail' # <<>>
      /\ (failing = {} => Page' = Details)
  <2>1. Details \in Pages
    BY DEF Details, Pages
  <2>2. trail \in Seq(Pages) /\ trail # <<>>
    BY DEF DetailsInv, PagesTyped
  <2>3. CASE trail' = trail /\ failing # {}
    BY <2>2, <2>3
  <2>4. CASE ChangePage(Details)
    <3>1. trail' = Append(trail, Details)
      BY <2>4 DEF ChangePage
    <3> QED
      BY <2>1, <2>2, <3>1, LastOfAppend DEF Page
  <2> QED
    BY <1>3, <2>3, <2>4
<1>7. DataTyped' /\ PagesTyped'
  BY <1>2, <1>3, <1>4, <1>6 DEF DetailsInv, DataTyped, PagesTyped
<1>8. ChartsOfPage' /\ OpenChartCurrent'
  <2>1. CASE failing # {}
    BY <1>3, <2>1 DEF ChartsOfPage, OpenChartCurrent
  <2>2. CASE failing = {}
    <3> SUFFICES ASSUME ~strayed PROVE ChartsOfPage' /\ OpenChartCurrent'
      BY <1>3, <2>2 DEF ChartsOfPage, OpenChartCurrent
    <3>1. changes = {} /\ \A j \in Services : charts[j] = {}
      BY <1>1 DEF DetailsInv, ChartsOfPage
    <3>2. rendered = Graphs
      BY <1>4, <2>2, <3>1
    <3>3. /\ \A g \in Graphs : drawn'[g] = [service |-> k, historicData |-> h]
          /\ \A j \in Services \ {k} : charts'[j] = {}
          /\ charts'[k] \subseteq Graphs
      BY <1>2, <3>1, <3>2 DEF DetailsInv, PagesTyped
    <3>4. ChartsOfPage'
      BY <1>2, <1>3, <1>6, <2>2, <3>1, <3>3 DEF ChartsOfPage
    <3>5. OpenChartCurrent'
      BY <1>2, <1>5, <3>3 DEF OpenChartCurrent, h
    <3> QED
      BY <3>4, <3>5
  <2> QED
    BY <2>1, <2>2
<1> QED
  BY <1>7, <1>8 DEF DetailsInv

(* A tab that is opened draws its chart with the history the event has. *)
LEMMA ExpandKeeps ==
  ASSUME DetailsInv, NEW graph \in Graphs, Expand(graph)
  PROVE  DetailsInv'
<1>1. /\ UNCHANGED <<results, servicesLastStates, trail, strayed, evt, changes>>
      /\ tab' = graph /\ Page = Details
      /\ \/ graph \notin charts[evt] /\ UNCHANGED <<charts, drawn>>
         \/ Rerender(graph, evt, HistoricData(evt))
         \/ RerenderThrows(graph, evt, HistoricData(evt))
  BY DEF Expand, eventVars, pageVars, chartVars, Details
<1>2. Page' = Page /\ (HistoricData(evt))' = HistoricData(evt)
  BY <1>1 DEF Page, HistoricData, Known
<1>3. DataTyped'
  BY <1>1 DEF DetailsInv, DataTyped
<1>4. CASE graph \notin charts[evt] /\ UNCHANGED <<charts, drawn>>
  BY <1>1, <1>2, <1>3, <1>4 DEF DetailsInv, PagesTyped, ChartsOfPage,
     OpenChartCurrent
<1>5. CASE Rerender(graph, evt, HistoricData(evt))
  <2>1. charts' = charts
        /\ drawn' = [g \in Graphs |-> IF g \in {graph}
             THEN [service |-> evt, historicData |-> HistoricData(evt)]
             ELSE drawn[g]]
    BY <1>5 DEF Rerender, Draw
  <2>2. PagesTyped'
    BY <1>1, <2>1 DEF DetailsInv, PagesTyped
  <2>3. ChartsOfPage'
    BY <1>1, <1>2, <2>1 DEF DetailsInv, ChartsOfPage
  <2>4. OpenChartCurrent'
    BY <1>1, <1>2, <2>1 DEF OpenChartCurrent
  <2> QED
    BY <1>3, <2>2, <2>3, <2>4 DEF DetailsInv
<1>6. CASE RerenderThrows(graph, evt, HistoricData(evt))
  <2>1. charts' = [charts EXCEPT ![evt] = @ \ {graph}] /\ drawn' = drawn
    BY <1>6 DEF RerenderThrows
  <2>2. PagesTyped'
    BY <1>1, <2>1 DEF DetailsInv, PagesTyped
  <2>3. ChartsOfPage'
    BY <1>1, <1>2, <2>1 DEF DetailsInv, PagesTyped, ChartsOfPage
  <2>4. OpenChartCurrent'
    BY <1>1, <1>2, <2>1 DEF DetailsInv, PagesTyped, ChartsOfPage, OpenChartCurrent,
       Details
  <2> QED
    BY <1>3, <2>2, <2>3, <2>4 DEF DetailsInv
<1> QED
  BY <1>1, <1>4, <1>5, <1>6

(* hide() of the details page destroys the charts of the event it shows and takes
   its rows away. *)
LEMMA EventBackButtonKeeps ==
  ASSUME DetailsInv, EventBackButton
  PROVE  DetailsInv'
<1>1. /\ UNCHANGED <<results, servicesLastStates, strayed, evt, tab, drawn>>
      /\ Page = Details /\ ChangePage("#main")
      /\ charts' = [charts EXCEPT ![evt] = {}]
      /\ changes' = {}
  BY DEF EventBackButton, eventVars, ChangesAfterHide, Details
<1>2. trail' \in Seq(Pages) /\ trail' # <<>> /\ Page' = "#main"
  <2>1. "#main" \in Pages
    BY DEF Pages
  <2> QED
    BY <1>1, <2>1, LastOfAppend DEF DetailsInv, PagesTyped, ChangePage, Page
<1>3. DataTyped' /\ PagesTyped'
  BY <1>1, <1>2 DEF DetailsInv, DataTyped, PagesTyped
<1>4. ~strayed => \A k \in Services : charts'[k] = {}
  BY <1>1 DEF DetailsInv, PagesTyped, ChartsOfPage
<1>5. ChartsOfPage'
  BY <1>1, <1>2, <1>4 DEF ChartsOfPage, Details
<1>6. OpenChartCurrent'
  BY <1>2 DEF OpenChartCurrent
<1> QED
  BY <1>3, <1>5, <1>6 DEF DetailsInv

-----------------------------------------------------------------------------
(* The pages, the charts and the data of the events always fit together. *)
THEOREM DetailsInvAlways == Spec => []DetailsInv
<1>1. Init => DetailsInv
  <2> SUFFICES ASSUME Init PROVE DetailsInv
    OBVIOUS
  <2>1. <<>> \in Seq(Past)
    OBVIOUS
  <2>2. DataTyped
    BY <2>1 DEF Init, DataTyped
  <2>3. trail \in Seq(Pages) /\ trail # <<>> /\ Page = "#main"
    BY DEF Init, Pages, Page, Last
  <2>4. PagesTyped /\ ChartsOfPage /\ OpenChartCurrent
    BY <2>3 DEF Init, PagesTyped, ChartsOfPage, OpenChartCurrent, Details
  <2> QED
    BY <2>2, <2>4 DEF DetailsInv
<1>2. DetailsInv /\ [Next]_vars => DetailsInv'
  <2> SUFFICES ASSUME DetailsInv, [Next]_vars PROVE DetailsInv'
    OBVIOUS
  <2>0. results \in [Services -> Seq(Past)]
    BY DEF DetailsInv, DataTyped
  <2>1. ASSUME NEW k \in Services, NEW check \in Checks, Missed(k, check)
        PROVE  DetailsInv'
    BY <2>1, NewResultTyped, DetailsUntouched
       DEF DetailsInv, Missed, pageVars, detailVars, chartVars
  <2>2. ASSUME NEW k \in Services, NEW check \in Checks, Live(k, check)
        PROVE  DetailsInv'
    <3>1. results' \in [Services -> Seq(Past)] /\ Last(results'[k]) \in Past
      BY <2>2, NewResultTyped DEF DetailsInv, Live
    <3>2. <<>> \in Seq(Past)
      OBVIOUS
    <3>3. [service |-> k, result |-> Last(results'[k]), historicData |-> <<>>]
            \in [service : Services, result : Past, historicData : Seq(Past)]
      BY <3>1, <3>2
    <3> QED
      BY <2>2, <3>1, <3>3, AddEventKeeps DEF Live
  <2>3. ASSUME NEW k \in Services, NEW m \in 1..MaxResults, Snapshot(k, m)
        PROVE  DetailsInv'
    <3> DEFINE after == SubSeq(results[k], m + 1, Len(results[k]))
    <3>1. results[k] \in Seq(Past) /\ m \in 1..Len(results[k])
      BY <2>0, <2>3 DEF Snapshot
    <3>2. Last(results[k]) \in Past
      <4>1. results[k] # <<>>
        BY <3>1
      <4> QED
        BY <3>1, <4>1, LastIn
    <3>3. Capped(after) \in Seq(Past)
      <4>1. m + 1 \in 1..(Len(results[k]) + 1)
        BY <3>1
      <4>2. after \in Seq(Past)
        BY <3>1, <4>1
      <4> QED
        BY <4>2, CappedTyped
    <3>4. results' = results
          /\ AddEvent([service |-> k, result |-> Last(results[k]),
                       historicData |-> Capped(after)])
      BY <2>3 DEF Snapshot
    <3> HIDE DEF after
    <3>5. [service |-> k, result |-> Last(results[k]),
           historicData |-> Capped(after)]
            \in [service : Services, result : Past, historicData : Seq(Past)]
      BY <3>2, <3>3
    <3> QED
      BY <2>0, <3>4, <3>5, AddEventKeeps
  <2>4. ASSUME NEW host \in Range(HostOf), GoToHostDetailedView(host)
        PROVE  DetailsInv'
    BY <2>4, OtherPage
       DEF GoToHostDetailedView, eventVars, detailVars, chartVars, Details, Pages
  <2>5. CASE BackFromHostDetailedView
    BY <2>5, OtherPage
       DEF BackFromHostDetailedView, eventVars, detailVars, chartVars, Details, Pages
  <2>6. ASSUME NEW k \in Services, ShowEvent(k) PROVE DetailsInv'
    BY <2>6, ShowEventKeeps
  <2>7. ASSUME NEW graph \in Tabs, Expand(graph) PROVE DetailsInv'
    BY <2>7, ExpandKeeps, BoundsAssumption
  <2>8. CASE Collapse
    <3>1. /\ UNCHANGED <<results, servicesLastStates, trail, strayed, evt, charts,
                         drawn, changes>>
          /\ tab' = NoEvent
      BY <2>8 DEF Collapse, eventVars, pageVars, chartVars
    <3>2. DataTyped' /\ PagesTyped' /\ ChartsOfPage'
      BY <3>1 DEF DetailsInv, DataTyped, PagesTyped, ChartsOfPage, Page
    <3>3. OpenChartCurrent'
      BY <3>1, NoEventAssumption
         DEF DetailsInv, PagesTyped, ChartsOfPage, OpenChartCurrent, Page, Details
    <3> QED
      BY <3>2, <3>3 DEF DetailsInv
  <2>9. CASE Resize
    BY <2>0, <2>9, DetailsUntouched DEF Resize, eventVars, pageVars
  <2>10. CASE Refresh
    BY <2>0, <2>10, DetailsUntouched
       DEF Refresh, eventVars, pageVars, detailVars, chartVars
  <2>11. CASE EventBackButton
    BY <2>11, EventBackButtonKeeps
  <2>12. CASE Back
    <3>1. trail' \in Seq(Pages) /\ trail' # <<>>
      BY <2>12, FrontOfTrail DEF DetailsInv, PagesTyped, Back
    <3>2. strayed' = TRUE /\ UNCHANGED <<results, servicesLastStates, evt, tab,
                                         charts, drawn, changes>>
      BY <2>12 DEF Back, eventVars, detailVars, chartVars
    <3> QED
      BY <3>1, <3>2 DEF DetailsInv, DataTyped, PagesTyped, ChartsOfPage,
                        OpenChartCurrent
  <2>13. CASE UNCHANGED vars
    BY <2>0, <2>13, DetailsUntouched
       DEF vars, eventVars, pageVars, detailVars, chartVars
  <2> QED
    BY <2>1, <2>2, <2>3, <2>4, <2>5, <2>6, <2>7, <2>8, <2>9, <2>10, <2>11, <2>12,
       <2>13 DEF Next
<1> QED
  BY <1>1, <1>2, PTL DEF Spec

(* Unless the device's back button or an error has got in between show() and
   hide(), the details page shows one event, and no other event has a chart. *)
THEOREM DetailsAlwaysShowTheirEvent == Spec => []DetailsShowTheirEvent
<1>1. DetailsInv => DetailsShowTheirEvent
  BY DEF DetailsInv, ChartsOfPage, DetailsShowTheirEvent, Details
<1> QED
  BY <1>1, DetailsInvAlways, PTL

(* The chart in the open tab is of the history the event has now. *)
THEOREM OpenChartAlwaysCurrent == Spec => []OpenChartCurrent
<1>1. DetailsInv => OpenChartCurrent
  BY DEF DetailsInv
<1> QED
  BY <1>1, DetailsInvAlways, PTL

-----------------------------------------------------------------------------
(* The history of an event. *)

(* What is cut off a history is its beginning. *)
LEMMA CappedIsEnd ==
  ASSUME NEW h \in Seq(Past)
  PROVE  /\ Capped(h) \in Seq(Past)
         /\ Len(Capped(h)) <= MaxHistoricData
         /\ h # <<>> => Capped(h) # <<>>
         /\ \E d \in Nat : /\ Len(Capped(h)) + d = Len(h)
                           /\ \A i \in 1..Len(Capped(h)) : Capped(h)[i] = h[i + d]
<1>1. CASE Len(h) > MaxHistoricData
  <2>1. PICK d \in Nat : d = Len(h) - MaxHistoricData
    BY <1>1, ChartsAssumption
  <2>2. \A i \in (d + 1)..Len(h) : h[i] \in Past
    BY <2>1
  <2>3. d + 1 \in Int /\ Len(h) \in Int /\ d + 1 <= Len(h)
        /\ Len(h) - (d + 1) + 1 = MaxHistoricData
    BY <2>1, ChartsAssumption
  <2>4. PICK t : t = SubSeq(h, d + 1, Len(h))
    OBVIOUS
  <2>5. t \in Seq(Past) /\ Len(t) = MaxHistoricData
        /\ \A i \in 1..MaxHistoricData : t[i] = h[(d + 1) + i - 1]
    BY <2>2, <2>3, <2>4, SubSeqProperties
  <2>6. Capped(h) = t
    BY <1>1, <2>1, <2>4 DEF Capped
  <2>7. t # <<>>
    BY <2>5, ChartsAssumption
  <2>8. \A i \in 1..MaxHistoricData : (d + 1) + i - 1 = i + d
    BY ChartsAssumption
  <2>9. Len(t) + d = Len(h) /\ \A i \in 1..Len(t) : t[i] = h[i + d]
    BY <2>1, <2>5, <2>8, ChartsAssumption
  <2>10. t \in Seq(Past) /\ Len(t) <= MaxHistoricData /\ t # <<>>
    BY <2>5, <2>7, ChartsAssumption
  <2> QED
    BY <2>6, <2>9, <2>10, Zenon
<1>2. CASE ~(Len(h) > MaxHistoricData)
  <2>1. Capped(h) = h
    BY <1>2 DEF Capped
  <2>2. Len(h) + 0 = Len(h) /\ \A i \in 1..Len(h) : h[i] = h[i + 0]
    OBVIOUS
  <2>3. 0 \in Nat /\ Len(h) <= MaxHistoricData
    BY <1>2, ChartsAssumption
  <2> QED
    BY <2>1, <2>2, <2>3, Zenon
<1> QED
  BY <1>1, <1>2

(* ... so its last entry stays, and time still runs forward in it. *)
LEMMA CappedForward ==
  ASSUME NEW h \in Seq(Past), h # <<>>
  PROVE  /\ Last(Capped(h)) = Last(h)
         /\ \A i \in DOMAIN Capped(h) : \E j \in DOMAIN h : Capped(h)[i] = h[j]
         /\ Forward(h) => Forward(Capped(h))
<1>1. PICK c : c = Capped(h)
  OBVIOUS
<1>2. c \in Seq(Past) /\ c # <<>> /\ h \in Seq(Past)
  BY <1>1, CappedIsEnd
<1>3. PICK d \in Nat : /\ Len(c) + d = Len(h)
                       /\ \A i \in 1..Len(c) : c[i] = h[i + d]
  BY <1>1, CappedIsEnd
<1>4. Len(c) \in Nat \ {0} /\ DOMAIN c = 1..Len(c) /\ DOMAIN h = 1..Len(h)
  BY <1>2, EmptySeq
<1>5. \A i \in DOMAIN c : i + d \in DOMAIN h /\ c[i] = h[i + d]
  BY <1>3, <1>4
<1>6. Last(c) = Last(h)
  BY <1>3, <1>4 DEF Last
<1>7. Forward(h) => Forward(c)
  <2> SUFFICES ASSUME Forward(h), NEW i \in DOMAIN c, NEW j \in DOMAIN c, i < j
               PROVE  c[i].timestamp <= c[j].timestamp
    BY DEF Forward
  <2>1. i + d < j + d
    BY <1>4
  <2> QED
    BY <1>5, <2>1 DEF Forward
<1> QED
  BY <1>1, <1>5, <1>6, <1>7

(* Time runs forward through two histories, the first of which is over when the
   second begins. *)
LEMMA ForwardConcat ==
  ASSUME NEW g \in Seq(Past), NEW h \in Seq(Past), Forward(g), Forward(h),
         \A i \in DOMAIN g, j \in DOMAIN h : g[i].timestamp <= h[j].timestamp
  PROVE  Forward(g \o h)
<1>1. PICK s : s = g \o h
  OBVIOUS
<1>2. /\ DOMAIN g = 1..Len(g) /\ DOMAIN h = 1..Len(h)
      /\ DOMAIN s = 1..(Len(g) + Len(h)) /\ Len(g) \in Nat /\ Len(h) \in Nat
      /\ \A i \in 1..Len(g) : s[i] = g[i]
      /\ \A i \in (Len(g) + 1)..(Len(g) + Len(h)) : s[i] = h[i - Len(g)]
  BY <1>1
<1> SUFFICES ASSUME NEW i \in DOMAIN s, NEW j \in DOMAIN s, i < j
             PROVE  s[i].timestamp <= s[j].timestamp
  BY <1>1 DEF Forward
<1>3. CASE j <= Len(g)
  <2>1. i \in DOMAIN g /\ j \in DOMAIN g /\ s[i] = g[i] /\ s[j] = g[j]
    BY <1>2, <1>3
  <2> QED
    BY <2>1 DEF Forward
<1>4. CASE i <= Len(g) /\ j > Len(g)
  <2>1. i \in DOMAIN g /\ j - Len(g) \in DOMAIN h /\ s[i] = g[i]
        /\ s[j] = h[j - Len(g)]
    BY <1>2, <1>4
  <2> QED
    BY <2>1
<1>5. CASE i > Len(g)
  <2>1. i - Len(g) \in DOMAIN h /\ j - Len(g) \in DOMAIN h /\ s[i] = h[i - Len(g)]
        /\ s[j] = h[j - Len(g)] /\ i - Len(g) < j - Len(g)
    BY <1>2, <1>5
  <2> QED
    BY <2>1 DEF Forward
<1> QED
  BY <1>2, <1>3, <1>4, <1>5

(* No entry of a history that runs forward is later than its last. *)
LEMMA LastIsLatest ==
  ASSUME NEW h \in Seq(Past), Forward(h), NEW i \in DOMAIN h
  PROVE  h[i].timestamp <= Last(h).timestamp
<1>1. DOMAIN h = 1..Len(h) /\ Len(h) \in Nat /\ Last(h) = h[Len(h)]
  BY DEF Last
<1>2. h[i].timestamp \in Nat
  <2>1. h[i] \in Past
    BY <1>1
  <2> QED
    BY <2>1 DEF Past
<1>3. CASE i = Len(h)
  BY <1>1, <1>2, <1>3
<1>4. CASE i < Len(h)
  BY <1>1, <1>4 DEF Forward
<1> QED
  BY <1>1, <1>3, <1>4

(* There are at most as many steps back in time as entries. *)
LEMMA StepsCounted ==
  ASSUME NEW h \in Seq(Past)
  PROVE  /\ IsFiniteSet(StepsBack(h)) /\ Cardinality(StepsBack(h)) \in Nat
         /\ Cardinality(StepsBack(h)) <= Len(h)
<1>1. Len(h) \in Nat /\ 1 \in Int /\ StepsBack(h) \in SUBSET (1..Len(h))
  BY DEF StepsBack
<1>2. IsFiniteSet(1..Len(h)) /\ Cardinality(1..Len(h)) = Len(h)
  <2>1. PICK n \in Nat : n = Len(h)
    BY <1>1
  <2>2. 1 \in Int /\ n \in Int /\ (IF 1 > n THEN 0 ELSE n - 1 + 1) = n
    OBVIOUS
  <2>3. IsFiniteSet(1..n) /\ Cardinality(1..n) = IF 1 > n THEN 0 ELSE n - 1 + 1
    BY <2>2, FS_Interval
  <2> QED
    BY <2>1, <2>2, <2>3
<1>3. IsFiniteSet(StepsBack(h)) /\ Cardinality(StepsBack(h)) <= Len(h)
  BY <1>1, <1>2, FS_Subset
<1> QED
  BY <1>3, FS_CardinalityType

(* A history cut at its beginning has no more of them. *)
LEMMA StepsCut ==
  ASSUME NEW h \in Seq(Past)
  PROVE  Cardinality(StepsBack(Capped(h))) <= Cardinality(StepsBack(h))
<1>1. PICK c : c = Capped(h)
  OBVIOUS
<1>2. PICK d \in Nat : /\ Len(c) + d = Len(h)
                       /\ \A i \in 1..Len(c) : c[i] = h[i + d]
  BY <1>1, CappedIsEnd
<1>3. c \in Seq(Past) /\ Len(c) \in Nat /\ Len(h) \in Nat
      /\ DOMAIN c = 1..Len(c) /\ DOMAIN h = 1..Len(h)
  BY <1>1, CappedIsEnd
<1>4. ASSUME NEW i \in StepsBack(c) PROVE i + d \in StepsBack(h) /\ i \in Nat
  <2>1. i \in 1..Len(c) /\ i - 1 \in 1..Len(c) /\ c[i].timestamp < c[i - 1].timestamp
    BY <1>3, <1>4 DEF StepsBack
  <2>2. (i - 1) + d = (i + d) - 1
    BY <2>1
  <2>3. c[i] = h[i + d] /\ c[i - 1] = h[(i - 1) + d]
    BY <1>2, <2>1, Zenon
  <2>4. i + d \in 1..Len(h) /\ i + d > 1
    BY <1>2, <1>3, <2>1
  <2> QED
    BY <1>3, <2>1, <2>2, <2>3, <2>4 DEF StepsBack
<1>5. PICK f : f = [i \in StepsBack(c) |-> i + d]
  OBVIOUS
<1>6. f \in [StepsBack(c) -> StepsBack(h)]
  BY <1>4, <1>5
<1>7. \A i, j \in StepsBack(c) : f[i] = f[j] => i = j
  BY <1>4, <1>5
<1>8. f \in Injection(StepsBack(c), StepsBack(h))
  BY <1>6, <1>7 DEF Injection, IsInjective
<1> QED
  BY <1>1, <1>8, StepsCounted, FS_Injection

(* Where a history goes on with one that runs forward there is one step back more,
   and none if the first is over when the second begins. *)
LEMMA StepsConcat ==
  ASSUME NEW g \in Seq(Past), NEW h \in Seq(Past), Forward(h)
  PROVE  /\ Cardinality(StepsBack(g \o h)) <= Cardinality(StepsBack(g)) + 1
         /\ (\A i \in DOMAIN g, j \in DOMAIN h : g[i].timestamp <= h[j].timestamp)
              => Cardinality(StepsBack(g \o h)) <= Cardinality(StepsBack(g))
<1>1. PICK s : s = g \o h
  OBVIOUS
<1>2. /\ DOMAIN g = 1..Len(g) /\ DOMAIN h = 1..Len(h)
      /\ DOMAIN s = 1..(Len(g) + Len(h)) /\ Len(g) \in Nat /\ Len(h) \in Nat
      /\ \A i \in 1..Len(g) : s[i] = g[i]
      /\ \A i \in (Len(g) + 1)..(Len(g) + Len(h)) : s[i] = h[i - Len(g)]
  BY <1>1
<1>3. IsFiniteSet(StepsBack(g)) /\ Cardinality(StepsBack(g)) \in Nat
  BY StepsCounted
<1>4. ASSUME NEW i \in StepsBack(s)
      PROVE  /\ i \in StepsBack(g) \/ i = Len(g) + 1
             /\ i = Len(g) + 1 => /\ Len(g) \in DOMAIN g /\ 1 \in DOMAIN h
                                 /\ h[1].timestamp < g[Len(g)].timestamp
  <2>1. i \in 2..(Len(g) + Len(h)) /\ s[i].timestamp < s[i - 1].timestamp
    BY <1>2, <1>4 DEF StepsBack
  <2>2. CASE i <= Len(g)
    <3>1. i \in 1..Len(g) /\ i - 1 \in 1..Len(g) /\ i > 1
      BY <1>2, <2>1, <2>2
    <3>2. g[i].timestamp < g[i - 1].timestamp
      BY <1>2, <2>1, <3>1
    <3> QED
      BY <1>2, <2>2, <3>1, <3>2 DEF StepsBack
  <2>3. CASE i = Len(g) + 1
    <3>1. Len(g) \in 1..Len(g) /\ 1 \in 1..Len(h) /\ i - 1 = Len(g) /\ i - Len(g) = 1
          /\ i \in (Len(g) + 1)..(Len(g) + Len(h))
      BY <1>2, <2>1, <2>3
    <3>2. s[i] = h[1] /\ s[i - 1] = g[Len(g)]
      BY <1>2, <3>1
    <3> QED
      BY <1>2, <2>1, <2>3, <3>1, <3>2
  <2>4. CASE i > Len(g) + 1
    <3>1. PICK j \in Nat : j = i - Len(g)
      BY <1>2, <2>1, <2>4
    <3>2. j \in 1..Len(h) /\ j - 1 \in 1..Len(h) /\ j - 1 < j
          /\ i \in (Len(g) + 1)..(Len(g) + Len(h))
          /\ i - 1 \in (Len(g) + 1)..(Len(g) + Len(h)) /\ (i - 1) - Len(g) = j - 1
      BY <1>2, <2>1, <2>4, <3>1
    <3>3. s[i] = h[j] /\ s[i - 1] = h[j - 1]
      BY <1>2, <3>1, <3>2
    <3>4. h[j - 1].timestamp <= h[j].timestamp
      BY <1>2, <3>2 DEF Forward
    <3>5. h[j] \in Past /\ h[j - 1] \in Past
      BY <3>2
    <3>6. h[j].timestamp \in Nat /\ h[j - 1].timestamp \in Nat
      BY <3>5 DEF Past
    <3> QED
      BY <2>1, <3>3, <3>4, <3>6
  <2> QED
    BY <1>2, <2>1, <2>2, <2>3, <2>4
<1>5. Cardinality(StepsBack(s)) <= Cardinality(StepsBack(g)) + 1
  <2>1. StepsBack(s) \in SUBSET (StepsBack(g) \cup {Len(g) + 1})
    BY <1>4
  <2>2. /\ IsFiniteSet(StepsBack(g) \cup {Len(g) + 1})
        /\ Cardinality(StepsBack(g) \cup {Len(g) + 1}) =
              IF Len(g) + 1 \in StepsBack(g) THEN Cardinality(StepsBack(g))
              ELSE Cardinality(StepsBack(g)) + 1
    BY <1>3, FS_AddElement
  <2>3. IsFiniteSet(StepsBack(s)) /\ Cardinality(StepsBack(s)) <=
          Cardinality(StepsBack(g) \cup {Len(g) + 1})
    BY <2>1, <2>2, FS_Subset
  <2>4. Cardinality(StepsBack(s)) \in Nat
    BY <2>3, FS_CardinalityType
  <2> QED
    BY <1>3, <2>2, <2>3, <2>4
<1>6. ASSUME \A i \in DOMAIN g, j \in DOMAIN h : g[i].timestamp <= h[j].timestamp
      PROVE  Cardinality(StepsBack(s)) <= Cardinality(StepsBack(g))
  <2>1. ASSUME NEW i \in StepsBack(s), i = Len(g) + 1 PROVE FALSE
    <3>1. Len(g) \in DOMAIN g /\ 1 \in DOMAIN h /\ h[1].timestamp < g[Len(g)].timestamp
      BY <1>4, <2>1
    <3>2. h[1] \in Past /\ g[Len(g)] \in Past
      BY <3>1
    <3>3. h[1].timestamp \in Nat /\ g[Len(g)].timestamp \in Nat
      BY <3>2 DEF Past
    <3> QED
      BY <1>6, <3>1, <3>3
  <2>2. StepsBack(s) \in SUBSET StepsBack(g)
    BY <1>4, <2>1
  <2> QED
    BY <1>3, <2>2, FS_Subset
<1> QED
  BY <1>1, <1>5, <1>6

Message == [service : Services, result : Past, historicData : Seq(Past)]

(* The history that comes with a message leads to its result. *)
LeadsTo(msg) ==
  msg.historicData # <<>> =>
    /\ Last(msg.historicData).timestamp = msg.result.timestamp
    /\ Forward(msg.historicData)

(* What manageHistoricData() makes of such a message leads to its result. *)
LEMMA NewHistoryLeads ==
  ASSUME NEW msg \in Message, LeadsTo(msg)
  PROVE  /\ NewHistory(msg) \in Seq(Past) /\ NewHistory(msg) # <<>>
         /\ Last(NewHistory(msg)).timestamp = msg.result.timestamp
         /\ Forward(NewHistory(msg))
<1>1. msg.result \in Past /\ msg.historicData \in Seq(Past)
  BY DEF Message
<1>2. CASE msg.historicData # <<>>
  BY <1>1, <1>2 DEF NewHistory, LeadsTo
<1>3. CASE msg.historicData = <<>>
  <2>1. PICK e : e = [msg.result EXCEPT !.return_code = Normalised(@)]
    OBVIOUS
  <2>2. Normalised(msg.result.return_code) \in Int
    BY <1>1 DEF Normalised, States, OK, UNKNOWN, Past
  <2>3. e \in Past /\ e.timestamp = msg.result.timestamp
    BY <1>1, <2>1, <2>2 DEF Past
  <2>4. NewHistory(msg) = <<e>>
    BY <1>3, <2>1 DEF NewHistory
  <2>5. <<e>> \in Seq(Past) /\ <<e>> # <<>> /\ Last(<<e>>) = e /\ DOMAIN <<e>> = {1}
    BY <2>3 DEF Last
  <2>6. Forward(<<e>>)
    BY <2>5 DEF Forward
  <2> QED
    BY <2>3, <2>4, <2>5, <2>6
<1> QED
  BY <1>2, <1>3

(* The history of an event after a message ends with the result, has no entry
   after it and at most one step back in time more than before, none if the message
   begins when the history is over. *)
LEMMA UpdatedLeads ==
  ASSUME NEW old \in Seq(Past), NEW msg \in Message, LeadsTo(msg),
         \A i \in DOMAIN old : old[i].timestamp <= msg.result.timestamp
  PROVE  LET h == Updated(old, msg).historicData
         IN  /\ h \in Seq(Past) /\ Len(h) \in 1..MaxHistoricData
             /\ Last(h).timestamp = msg.result.timestamp
             /\ \A i \in DOMAIN h : h[i].timestamp <= msg.result.timestamp
             /\ Cardinality(StepsBack(h)) \in 0..MaxHistoricData
             /\ Cardinality(StepsBack(h)) <= Cardinality(StepsBack(old)) + 1
             /\ (\A i \in DOMAIN old, j \in DOMAIN NewHistory(msg) :
                   old[i].timestamp <= NewHistory(msg)[j].timestamp)
                  => Cardinality(StepsBack(h)) <= Cardinality(StepsBack(old))
<1>1. PICK new : new = NewHistory(msg)
  OBVIOUS
<1>2. new \in Seq(Past) /\ new # <<>> /\ Last(new).timestamp = msg.result.timestamp
      /\ Forward(new)
  BY <1>1, NewHistoryLeads
<1>3. PICK c : c = Capped(new)
  OBVIOUS
<1>4. /\ c \in Seq(Past) /\ c # <<>> /\ Last(c) = Last(new) /\ Forward(c)
      /\ \A i \in DOMAIN c : \E j \in DOMAIN new : c[i] = new[j]
  BY <1>2, <1>3, CappedIsEnd, CappedForward
<1>5. PICK s : s = old \o c
  OBVIOUS
<1>6. PICK h : h = Capped(s)
  OBVIOUS
<1>7. Updated(old, msg).historicData = h
  BY <1>1, <1>3, <1>5, <1>6 DEF Updated
<1>8. /\ s \in Seq(Past) /\ s # <<>> /\ Last(s) = Last(c)
      /\ \A i \in DOMAIN s : (\E j \in DOMAIN old : s[i] = old[j])
                             \/ (\E j \in DOMAIN c : s[i] = c[j])
  <2>1. /\ DOMAIN old = 1..Len(old) /\ DOMAIN c = 1..Len(c)
        /\ s \in Seq(Past) /\ Len(old) \in Nat /\ Len(c) \in Nat \ {0}
        /\ DOMAIN s = 1..(Len(old) + Len(c)) /\ Len(s) = Len(old) + Len(c)
        /\ \A i \in 1..Len(old) : s[i] = old[i]
        /\ \A i \in (Len(old) + 1)..(Len(old) + Len(c)) : s[i] = c[i - Len(old)]
    BY <1>4, <1>5, EmptySeq
  <2>2. Last(s) = Last(c)
    BY <2>1 DEF Last
  <2>3. s # <<>>
    BY <2>1
  <2>4. ASSUME NEW i \in DOMAIN s
        PROVE  (\E j \in DOMAIN old : s[i] = old[j]) \/ (\E j \in DOMAIN c : s[i] = c[j])
    <3>1. CASE i <= Len(old)
      <4>1. i \in DOMAIN old /\ s[i] = old[i]
        BY <2>1, <3>1
      <4> QED
        BY <4>1
    <3>2. CASE i > Len(old)
      <4>1. i - Len(old) \in DOMAIN c /\ s[i] = c[i - Len(old)]
        BY <2>1, <3>2
      <4> QED
        BY <4>1
    <3> QED
      BY <2>1, <3>1, <3>2
  <2> QED
    BY <2>1, <2>2, <2>3, <2>4
<1>9. /\ h \in Seq(Past) /\ h # <<>> /\ Len(h) <= MaxHistoricData
      /\ Last(h) = Last(s)
      /\ \A i \in DOMAIN h : \E j \in DOMAIN s : h[i] = s[j]
  BY <1>6, <1>8, CappedIsEnd, CappedForward
<1>10. Len(h) \in 1..MaxHistoricData
  BY <1>9, EmptySeq, ChartsAssumption
<1>11. Last(h).timestamp = msg.result.timestamp
  BY <1>2, <1>4, <1>8, <1>9
<1>12. ASSUME NEW i \in DOMAIN h PROVE h[i].timestamp <= msg.result.timestamp
  <2>1. PICK j \in DOMAIN s : h[i] = s[j]
    BY <1>9
  <2>2. CASE \E l \in DOMAIN old : s[j] = old[l]
    BY <2>1, <2>2
  <2>3. CASE \E l \in DOMAIN c : s[j] = c[l]
    <3>1. PICK l \in DOMAIN new : s[j] = new[l]
      BY <1>4, <2>3
    <3>2. new[l].timestamp <= Last(new).timestamp
      BY <1>2, LastIsLatest
    <3> QED
      BY <1>2, <2>1, <3>1, <3>2
  <2> QED
    BY <1>8, <2>2, <2>3
<1>13. /\ Cardinality(StepsBack(h)) <= Cardinality(StepsBack(s))
       /\ Cardinality(StepsBack(h)) \in Nat /\ Cardinality(StepsBack(h)) <= Len(h)
       /\ Cardinality(StepsBack(s)) \in Nat /\ Cardinality(StepsBack(old)) \in Nat
  BY <1>6, <1>8, <1>9, StepsCut, StepsCounted
<1>14. /\ Cardinality(StepsBack(s)) <= Cardinality(StepsBack(old)) + 1
       /\ (\A i \in DOMAIN old, j \in DOMAIN c : old[i].timestamp <= c[j].timestamp)
            => Cardinality(StepsBack(s)) <= Cardinality(StepsBack(old))
  BY <1>4, <1>5, StepsConcat
<1>15. Cardinality(StepsBack(h)) \in 0..MaxHistoricData
       /\ Cardinality(StepsBack(h)) <= Cardinality(StepsBack(old)) + 1
  BY <1>10, <1>13, <1>14, ChartsAssumption
<1>16. ASSUME \A i \in DOMAIN old, j \in DOMAIN new : old[i].timestamp <= new[j].timestamp
       PROVE  Cardinality(StepsBack(h)) <= Cardinality(StepsBack(old))
  <2>1. \A i \in DOMAIN old, j \in DOMAIN c : old[i].timestamp <= c[j].timestamp
    BY <1>4, <1>16
  <2> QED
    BY <1>13, <1>14, <2>1
<1> QED
  BY <1>1, <1>7, <1>9, <1>10, <1>11, <1>12, <1>15, <1>16

(* The history of event k leads to what the event shows and has nothing later
   than the newest result there is. *)
Leads(k) ==
  LET event == servicesLastStates[k]
      h == event.historicData
  IN  /\ Len(h) \in 1..MaxHistoricData
      /\ Last(h).timestamp = event.timestamp
      /\ Cardinality(StepsBack(h)) <= resent[k]
      /\ results[k] # <<>>
      /\ \A i \in DOMAIN h : h[i].timestamp <= Last(results[k]).timestamp

HistoryInv ==
  /\ resent \in [Services -> 0..MaxHistoricData]
  /\ \A k \in Services : Forward(results[k]) /\ (Known(k) => Leads(k))

(* A new result is not earlier than those before it. *)
LEMMA NewResultLater ==
  ASSUME DataTyped, HistoryInv, NEW k \in Services, NEW check \in Checks,
         NewResult(k, check)
  PROVE  /\ results'[k] # <<>> /\ results'[k] \in Seq(Past) /\ Forward(results'[k])
         /\ results[k] # <<>> =>
              Last(results[k]).timestamp <= Last(results'[k]).timestamp
         /\ \A j \in Services \ {k} : results'[j] = results[j]
<1>1. PICK e : e = [timestamp |-> check.gap + (IF results[k] = <<>> THEN 0
                                               ELSE Last(results[k]).timestamp),
                    return_code |-> check.return_code,
                    perf_data |-> check.perf_data]
  OBVIOUS
<1>2. PICK s : s = results[k]
  OBVIOUS
<1>3. s \in Seq(Past) /\ Forward(s)
  BY <1>2 DEF DataTyped, HistoryInv
<1>4. check.gap \in Nat /\ check.return_code \in Int /\ check.perf_data \in Seq(Int)
  BY ChecksAssumption
<1>5. s # <<>> => Last(s).timestamp \in Nat
  BY <1>3, LastIn DEF Past
<1>6. e \in Past /\ (s # <<>> => Last(s).timestamp <= e.timestamp)
  BY <1>1, <1>2, <1>4, <1>5 DEF Past
<1>7. results' = [results EXCEPT ![k] = Append(@, e)]
  BY <1>1 DEF NewResult
<1>8. results'[k] = Append(s, e) /\ \A j \in Services \ {k} : results'[j] = results[j]
  BY <1>2, <1>7 DEF DataTyped
<1>9. Append(s, e) \in Seq(Past) /\ Append(s, e) # <<>> /\ Last(Append(s, e)) = e
      /\ <<e>> \in Seq(Past) /\ DOMAIN <<e>> = {1} /\ Append(s, e) = s \o <<e>>
      /\ <<e>>[1] = e
  BY <1>3, <1>6, LastOfAppend, AppendIsConcat
<1>10. Forward(<<e>>)
  BY <1>9 DEF Forward
<1>11. ASSUME NEW i \in DOMAIN s PROVE s[i].timestamp <= e.timestamp
  <2>1. s # <<>> /\ s[i] \in Past
    BY <1>3
  <2>2. s[i].timestamp <= Last(s).timestamp
    BY <1>3, LastIsLatest
  <2>3. s[i].timestamp \in Nat /\ Last(s).timestamp \in Nat /\ e.timestamp \in Nat
    BY <1>5, <1>6, <2>1 DEF Past
  <2> QED
    BY <1>6, <2>1, <2>2, <2>3
<1>12. \A i \in DOMAIN s, j \in DOMAIN <<e>> : s[i].timestamp <= <<e>>[j].timestamp
  BY <1>9, <1>11
<1>13. Forward(s \o <<e>>)
  BY <1>3, <1>9, <1>10, <1>12, ForwardConcat
<1> QED
  BY <1>2, <1>6, <1>8, <1>9, <1>13

(* Results nobody is told of leave the histories as they are. *)
LEMMA HistoryUntold ==
  ASSUME DataTyped, HistoryInv, NEW j \in Services,
         servicesLastStates'[j] = servicesLastStates[j],
         resent'[j] = resent[j],
         Forward(results'[j]), results'[j] \in Seq(Past),
         results[j] # <<>> =>
           /\ results'[j] # <<>>
           /\ Last(results[j]).timestamp <= Last(results'[j]).timestamp
  PROVE  Forward(results'[j]) /\ ((Known(j))' => (Leads(j))')
<1> SUFFICES ASSUME (Known(j))' PROVE (Leads(j))'
  OBVIOUS
<1>1. PICK event : event = servicesLastStates[j]
  OBVIOUS
<1>2. servicesLastStates'[j] = event
  BY <1>1
<1>3. Known(j)
  BY <1>1, <1>2 DEF Known
<1>4. event \in Event
  BY <1>1, <1>3 DEF DataTyped, Known
<1>5. PICK h : h = event.historicData
  OBVIOUS
<1>6. h \in Seq(Past)
  BY <1>4, <1>5 DEF Event
<1>7. /\ Len(h) \in 1..MaxHistoricData
      /\ Last(h).timestamp = event.timestamp
      /\ Cardinality(StepsBack(h)) <= resent[j]
      /\ results[j] # <<>>
      /\ \A i \in DOMAIN h : h[i].timestamp <= Last(results[j]).timestamp
  BY <1>1, <1>3, <1>5 DEF HistoryInv, Leads
<1>8. ASSUME NEW i \in DOMAIN h PROVE h[i].timestamp <= Last(results'[j]).timestamp
  <2>1. h[i] \in Past /\ Last(results[j]) \in Past /\ Last(results'[j]) \in Past
    <3>1. h[i] \in Past
      BY <1>6
    <3>2. results[j] \in Seq(Past)
      BY DEF DataTyped
    <3> QED
      BY <1>7, <3>1, <3>2, LastIn
  <2>2. h[i].timestamp \in Nat /\ Last(results[j]).timestamp \in Nat
        /\ Last(results'[j]).timestamp \in Nat
    BY <2>1 DEF Past
  <2> QED
    BY <1>7, <2>2
<1> QED
  BY <1>2, <1>5, <1>7, <1>8 DEF Leads

(* addEvent() of a message that leads to a result that is not over before the
   event is. *)
LEMMA HistoryTold ==
  ASSUME DataTyped, HistoryInv, results' \in [Services -> Seq(Past)],
         NEW msg \in Message, LeadsTo(msg), AddEvent(msg),
         \A j \in Services : Forward(results'[j]),
         \A j \in Services \ {msg.service} :
           results'[j] = results[j] /\ resent'[j] = resent[j],
         resent' \in [Services -> 0..MaxHistoricData],
         results'[msg.service] # <<>>,
         Last(results'[msg.service]).timestamp = msg.result.timestamp,
         \A i \in DOMAIN HistoricData(msg.service) :
           HistoricData(msg.service)[i].timestamp <= msg.result.timestamp,
         \/ resent'[msg.service] = MaxHistoricData
         \/ resent'[msg.service] = resent[msg.service] + 1
         \/ /\ resent'[msg.service] = resent[msg.service]
            /\ \A i \in DOMAIN HistoricData(msg.service), j \in DOMAIN NewHistory(msg) :
                 HistoricData(msg.service)[i].timestamp <= NewHistory(msg)[j].timestamp
  PROVE  HistoryInv'
<1>1. PICK k \in Services : k = msg.service
  BY DEF Message
<1>2. PICK old : old = HistoricData(k)
  OBVIOUS
<1>3. old \in Seq(Past)
  BY <1>2, HistoryTyped
<1>4. PICK event : event = Updated(old, msg)
  OBVIOUS
<1>5. servicesLastStates' = [servicesLastStates EXCEPT ![k] = event]
  BY <1>1, <1>2, <1>4 DEF AddEvent
<1>6. servicesLastStates'[k] = event
      /\ \A j \in Services \ {k} : servicesLastStates'[j] = servicesLastStates[j]
  BY <1>5 DEF DataTyped
<1>7. PICK h : h = event.historicData
  OBVIOUS
<1>8. \A i \in DOMAIN old : old[i].timestamp <= msg.result.timestamp
  BY <1>1, <1>2
<1>9. /\ h \in Seq(Past) /\ Len(h) \in 1..MaxHistoricData
      /\ Last(h).timestamp = msg.result.timestamp
      /\ \A i \in DOMAIN h : h[i].timestamp <= msg.result.timestamp
      /\ Cardinality(StepsBack(h)) \in 0..MaxHistoricData
      /\ Cardinality(StepsBack(h)) <= Cardinality(StepsBack(old)) + 1
      /\ (\A i \in DOMAIN old, j \in DOMAIN NewHistory(msg) :
            old[i].timestamp <= NewHistory(msg)[j].timestamp)
           => Cardinality(StepsBack(h)) <= Cardinality(StepsBack(old))
  BY <1>3, <1>4, <1>7, <1>8, UpdatedLeads
<1>10. event.timestamp = msg.result.timestamp
  BY <1>4 DEF Updated
<1>11. Cardinality(StepsBack(h)) <= resent'[k]
  <2>1. Cardinality(StepsBack(old)) \in Nat /\ Cardinality(StepsBack(old)) <= resent[k]
        /\ resent[k] \in Nat
    <3>1. resent[k] \in Nat
      BY ChartsAssumption DEF HistoryInv
    <3>2. CASE Known(k)
      BY <1>2, <1>3, <3>1, <3>2, StepsCounted DEF HistoryInv, Leads, HistoricData
    <3>3. CASE ~Known(k)
      <4>1. old = <<>> /\ <<>> \in Seq(Past) /\ Len(<<>>) = 0
        BY <1>2, <3>3 DEF HistoricData
      <4>2. Cardinality(StepsBack(old)) \in Nat /\ Cardinality(StepsBack(old)) <= 0
        BY <4>1, StepsCounted
      <4> QED
        BY <3>1, <4>2
    <3> QED
      BY <3>2, <3>3
  <2>2. CASE resent'[k] = MaxHistoricData
    BY <1>9, <2>2, ChartsAssumption
  <2>3. CASE resent'[k] = resent[k] + 1
    BY <1>9, <2>1, <2>3, ChartsAssumption
  <2>4. CASE /\ resent'[k] = resent[k]
             /\ \A i \in DOMAIN old, j \in DOMAIN NewHistory(msg) :
                  old[i].timestamp <= NewHistory(msg)[j].timestamp
    BY <1>9, <2>1, <2>4, ChartsAssumption
  <2> QED
    BY <1>1, <1>2, <2>2, <2>3, <2>4
<1>12. (Leads(k))'
  BY <1>1, <1>6, <1>7, <1>9, <1>10, <1>11 DEF Leads
<1>13. ASSUME NEW j \in Services \ {k}
       PROVE  Forward(results'[j]) /\ ((Known(j))' => (Leads(j))')
  <2>1. results'[j] = results[j] /\ results'[j] \in Seq(Past)
    BY <1>1
  <2>2. results[j] # <<>> =>
          Last(results[j]).timestamp <= Last(results'[j]).timestamp
    <3> SUFFICES ASSUME results[j] # <<>>
                 PROVE  Last(results[j]).timestamp <= Last(results[j]).timestamp
      BY <2>1
    <3>1. Last(results[j]) \in Past
      BY <2>1, LastIn
    <3> QED
      BY <3>1 DEF Past
  <2> QED
    BY <1>1, <1>6, <2>1, <2>2, HistoryUntold
<1> QED
  BY <1>1, <1>12, <1>13 DEF HistoryInv

(* A message of a spread result. *)
LEMMA HistoryLive ==
  ASSUME DataTyped, HistoryInv, NEW k \in Services, NEW check \in Checks,
         Live(k, check)
  PROVE  HistoryInv'
<1>1. results' \in [Services -> Seq(Past)] /\ Last(results'[k]) \in Past
  BY NewResultTyped DEF Live
<1>2. /\ results'[k] # <<>> /\ Forward(results'[k])
      /\ results[k] # <<>> =>
           Last(results[k]).timestamp <= Last(results'[k]).timestamp
      /\ \A j \in Services \ {k} : results'[j] = results[j]
  BY NewResultLater DEF Live
<1>3. PICK msg : msg = [service |-> k, result |-> Last(results'[k]),
                        historicData |-> <<>>]
  OBVIOUS
<1>4. AddEvent(msg) /\ resent' = resent
  BY <1>3 DEF Live
<1>5. msg.service = k /\ msg.result = Last(results'[k]) /\ msg.historicData = <<>>
  BY <1>3
<1>6. msg \in Message
  <2>1. <<>> \in Seq(Past)
    OBVIOUS
  <2> QED
    BY <1>1, <1>3, <2>1 DEF Message
<1>7. LeadsTo(msg)
  BY <1>5 DEF LeadsTo
<1>8. \A j \in Services : Forward(results'[j])
  BY <1>2 DEF HistoryInv
<1>9. PICK old : old = HistoricData(k)
  OBVIOUS
<1>10. old \in Seq(Past)
  BY <1>9, HistoryTyped
<1>11. ASSUME NEW i \in DOMAIN old
       PROVE  Known(k) /\ old[i].timestamp <= msg.result.timestamp
  <2>1. Known(k)
    BY <1>9, <1>11 DEF HistoricData
  <2>2. results[k] # <<>> /\ old[i].timestamp <= Last(results[k]).timestamp
    BY <1>9, <2>1 DEF HistoryInv, Leads, HistoricData
  <2>3. Last(results[k]).timestamp <= msg.result.timestamp
    BY <1>2, <1>5, <2>2
  <2>4. old[i] \in Past /\ Last(results[k]) \in Past /\ msg.result \in Past
    <3>1. results[k] \in Seq(Past)
      BY DEF DataTyped
    <3> QED
      BY <1>1, <1>5, <1>10, <2>2, <3>1, LastIn
  <2>5. old[i].timestamp \in Nat /\ Last(results[k]).timestamp \in Nat
        /\ msg.result.timestamp \in Nat
    BY <2>4 DEF Past
  <2> QED
    BY <2>1, <2>2, <2>3, <2>5
<1>12. resent' \in [Services -> 0..MaxHistoricData]
  BY <1>4 DEF HistoryInv
<1>13. \A j \in DOMAIN NewHistory(msg) :
         NewHistory(msg)[j].timestamp = msg.result.timestamp
  <2>1. PICK e : e = [msg.result EXCEPT !.return_code = Normalised(@)]
    OBVIOUS
  <2>2. NewHistory(msg) = <<e>>
    BY <1>5, <2>1 DEF NewHistory
  <2>3. e.timestamp = msg.result.timestamp
    BY <1>1, <1>5, <2>1 DEF Past
  <2> QED
    BY <2>2, <2>3
<1>14. \A i \in DOMAIN old, j \in DOMAIN NewHistory(msg) :
         old[i].timestamp <= NewHistory(msg)[j].timestamp
  BY <1>11, <1>13
<1> QED
  BY <1>1, <1>2, <1>4, <1>5, <1>6, <1>7, <1>8, <1>9, <1>11, <1>12, <1>14, HistoryTold

(* The snapshot of a middleware that knows the results from the m-th on. *)
LEMMA HistorySnapshot ==
  ASSUME DataTyped, HistoryInv, NEW k \in Services, NEW m \in 1..MaxResults,
         Snapshot(k, m)
  PROVE  HistoryInv'
<1>1. PICK s : s = results[k]
  OBVIOUS
<1>2. s \in Seq(Past) /\ Forward(s) /\ m \in 1..Len(s)
  BY <1>1 DEF DataTyped, HistoryInv, Snapshot
<1>3. PICK after : after = SubSeq(s, m + 1, Len(s))
  OBVIOUS
<1>4. PICK msg : msg = [service |-> k, result |-> Last(s),
                        historicData |-> Capped(after)]
  OBVIOUS
<1>5. AddEvent(msg) /\ results' = results
      /\ resent' = IF Known(k) /\ resent[k] < MaxHistoricData
                   THEN [resent EXCEPT ![k] = @ + 1] ELSE resent
  BY <1>1, <1>3, <1>4 DEF Snapshot
<1>6. msg.service = k /\ msg.result = Last(s) /\ msg.historicData = Capped(after)
  BY <1>4
<1>7. s # <<>> /\ Last(s) \in Past
  BY <1>2, LastIn
<1>8. after \in Seq(Past)
      /\ (after # <<>> => Last(after) = Last(s) /\ Forward(after))
  <2>1. CASE m = Len(s)
    <3>1. Len(s) \in Int /\ m + 1 \in Int /\ m + 1 > Len(s)
      BY <1>2, <2>1
    <3>2. after = <<>>
      BY <1>3, <3>1, SubSeqEmpty
    <3> QED
      BY <3>2
  <2>2. CASE m < Len(s)
    <3>1. PICK n \in Int : n = m + 1
      BY <1>2
    <3>2. Len(s) \in Int /\ n <= Len(s) /\ \A i \in n..Len(s) : s[i] \in Past
      BY <1>2, <2>2, <3>1
    <3>3. after \in Seq(Past) /\ Len(after) = Len(s) - n + 1
          /\ \A i \in 1..(Len(s) - n + 1) : after[i] = s[n + i - 1]
      BY <1>3, <3>1, <3>2, SubSeqProperties
    <3>4. Len(after) \in Nat \ {0} /\ DOMAIN after = 1..Len(after)
          /\ DOMAIN s = 1..Len(s)
          /\ \A i \in DOMAIN after : n + i - 1 \in DOMAIN s /\ after[i] = s[n + i - 1]
      <4>1. Len(after) \in Nat \ {0} /\ DOMAIN after = 1..Len(after)
        BY <3>2, <3>3
      <4>2. DOMAIN s = 1..Len(s) /\ m \in Nat /\ n = m + 1 /\ n >= 1
        BY <1>2, <3>1
      <4>3. ASSUME NEW i \in 1..(Len(s) - n + 1) PROVE n + i - 1 \in 1..Len(s)
        BY <3>2, <4>2
      <4> QED
        BY <3>3, <4>1, <4>2, <4>3
    <3>5. Last(after) = Last(s)
      <4>1. n + Len(after) - 1 = Len(s)
        BY <3>1, <3>2, <3>3
      <4> QED
        BY <3>4, <4>1 DEF Last
    <3>6. Forward(after)
      <4> SUFFICES ASSUME NEW i \in DOMAIN after, NEW j \in DOMAIN after, i < j
                   PROVE  after[i].timestamp <= after[j].timestamp
        BY DEF Forward
      <4>1. n + i - 1 < n + j - 1
        BY <3>1, <3>4
      <4> QED
        BY <1>2, <3>4, <4>1 DEF Forward
    <3> QED
      BY <3>3, <3>5, <3>6
  <2> QED
    BY <1>2, <2>1, <2>2
<1>9. msg \in Message
  BY <1>4, <1>7, <1>8, CappedTyped DEF Message
<1>10. LeadsTo(msg)
  <2>1. CASE after = <<>>
    <3>1. Capped(after) = <<>>
      BY <2>1, ChartsAssumption DEF Capped
    <3> QED
      BY <1>6, <3>1 DEF LeadsTo
  <2>2. CASE after # <<>>
    <3>1. Last(Capped(after)) = Last(s) /\ Forward(Capped(after))
      BY <1>8, <2>2, CappedForward
    <3> QED
      BY <1>6, <3>1 DEF LeadsTo
  <2> QED
    BY <2>1, <2>2
<1>11. \A j \in Services : Forward(results'[j])
  BY <1>5 DEF HistoryInv
<1>12. results' \in [Services -> Seq(Past)] /\ results'[k] # <<>>
       /\ Last(results'[k]).timestamp = msg.result.timestamp
  BY <1>1, <1>5, <1>6, <1>7 DEF DataTyped
<1>13. \A j \in Services \ {k} :
         results'[j] = results[j] /\ resent'[j] = resent[j]
  BY <1>5 DEF HistoryInv
<1>14. \A i \in DOMAIN HistoricData(k) :
         HistoricData(k)[i].timestamp <= msg.result.timestamp
  <2>1. CASE Known(k)
    BY <1>1, <1>6, <2>1 DEF HistoryInv, Leads, HistoricData
  <2>2. CASE ~Known(k)
    BY <2>2 DEF HistoricData
  <2> QED
    BY <2>1, <2>2
<1>15. /\ resent' \in [Services -> 0..MaxHistoricData]
       /\ \/ resent'[k] = MaxHistoricData
          \/ resent'[k] = resent[k] + 1
          \/ resent'[k] = resent[k] /\ HistoricData(k) = <<>>
  <2>1. resent \in [Services -> 0..MaxHistoricData] /\ resent[k] \in 0..MaxHistoricData
    BY DEF HistoryInv
  <2>2. CASE Known(k) /\ resent[k] < MaxHistoricData
    <3>1. resent' = [resent EXCEPT ![k] = @ + 1]
      BY <1>5, <2>2
    <3>2. resent[k] + 1 \in 0..MaxHistoricData
      BY <2>1, <2>2, ChartsAssumption
    <3> QED
      BY <2>1, <3>1, <3>2
  <2>3. CASE Known(k) /\ ~(resent[k] < MaxHistoricData)
    BY <1>5, <2>1, <2>3, ChartsAssumption
  <2>4. CASE ~Known(k)
    BY <1>5, <2>1, <2>4 DEF HistoricData
  <2> QED
    BY <2>2, <2>3, <2>4
<1>16. HistoricData(k) = <<>> =>
         \A i \in DOMAIN HistoricData(k), j \in DOMAIN NewHistory(msg) :
           HistoricData(k)[i].timestamp <= NewHistory(msg)[j].timestamp
  OBVIOUS
<1> QED
  BY <1>5, <1>6, <1>9, <1>10, <1>11, <1>12, <1>13, <1>14, <1>15, <1>16, HistoryTold

(* The histories of the events always lead to what the events show. *)
THEOREM HistoryInvAlways == Spec => []HistoryInv
<1>1. Init => HistoryInv
  <2> SUFFICES ASSUME Init, NEW k \in Services
               PROVE  /\ resent \in [Services -> 0..MaxHistoricData]
                      /\ Forward(results[k]) /\ ~Known(k)
    BY ChartsAssumption DEF HistoryInv, Init
  <2> QED
    BY ChartsAssumption DEF Init, Forward, Known
<1>2. DetailsInv /\ HistoryInv /\ [Next]_vars => HistoryInv'
  <2> SUFFICES ASSUME DataTyped, HistoryInv, [Next]_vars PROVE HistoryInv'
    BY DEF DetailsInv
  <2>1. ASSUME NEW k \in Services, NEW check \in Checks, Missed(k, check)
        PROVE  HistoryInv'
    <3>1. results' \in [Services -> Seq(Past)]
      BY <2>1, NewResultTyped DEF Missed
    <3>2. /\ results'[k] # <<>> /\ Forward(results'[k])
          /\ results[k] # <<>> =>
               Last(results[k]).timestamp <= Last(results'[k]).timestamp
          /\ \A j \in Services \ {k} : results'[j] = results[j]
      BY <2>1, NewResultLater DEF Missed
    <3>3. servicesLastStates' = servicesLastStates /\ resent' = resent
      BY <2>1 DEF Missed
    <3>4. ASSUME NEW j \in Services
          PROVE  Forward(results'[j]) /\ ((Known(j))' => (Leads(j))')
      <4>1. Forward(results'[j]) /\ results'[j] \in Seq(Past)
        BY <3>1, <3>2 DEF HistoryInv
      <4>2. results[j] # <<>> =>
              /\ results'[j] # <<>>
              /\ Last(results[j]).timestamp <= Last(results'[j]).timestamp
        <5>1. CASE j = k
          BY <3>2, <5>1
        <5>2. CASE j # k
          <6>1. results[j] # <<>> => Last(results[j]) \in Past
            BY LastIn DEF DataTyped
          <6>2. results[j] # <<>> => Last(results[j]).timestamp \in Nat
            BY <6>1 DEF Past
          <6> QED
            BY <3>2, <5>2, <6>2
        <5> QED
          BY <5>1, <5>2
      <4> QED
        BY <3>3, <4>1, <4>2, HistoryUntold
    <3> QED
      BY <3>3, <3>4 DEF HistoryInv
  <2>2. ASSUME NEW k \in Services, NEW check \in Checks, Live(k, check)
        PROVE  HistoryInv'
    BY <2>2, HistoryLive
  <2>3. ASSUME NEW k \in Services, NEW m \in 1..MaxResults, Snapshot(k, m)
        PROVE  HistoryInv'
    BY <2>3, HistorySnapshot
  <2>4. CASE UNCHANGED eventVars
    BY <2>4 DEF eventVars, HistoryInv, Leads, Known
  <2> QED
    BY <2>1, <2>2, <2>3, <2>4
    DEF Next, GoToHostDetailedView, BackFromHostDetailedView, ShowEvent, Expand,
        Collapse, Resize, Refresh, EventBackButton, Back, vars
<1> QED
  BY <1>1, <1>2, DetailsInvAlways, PTL DEF Spec

(* The history of an event ends with what the event shows, is never empty, stays
   within its cap and runs forward in time but for at most one place each time the
   service was sent again, whatever results the phone missed between two
   connections. *)
THEOREM HistoryAlwaysLeadsToNow == Spec => []HistoryLeadsToNow
<1>1. HistoryInv => HistoryLeadsToNow
  BY DEF HistoryInv, Leads, HistoryLeadsToNow
<1> QED
  BY <1>1, HistoryInvAlways, PTL

-----------------------------------------------------------------------------
(* The kinds of the values: what the charts draw, the lists, the log. *)

(* The entries the boxes of the evolution chart start with. *)
Starts(h) ==
  [j \in DOMAIN Places(h, StateChanges(h)) |-> h[Places(h, StateChanges(h))[j]]]

Duration(h, now, j) == Until(Starts(h), j, RenderTime(h, now)) - Starts(h)[j].timestamp

Pixels(h, now, j) ==
  Floor(Duration(h, now, j) * GraphWidth, RenderTime(h, now) - h[1].timestamp)

(* The boxes start at entries of the history, in their order. *)
LEMMA StartsTyped ==
  ASSUME NEW h \in Seq(Past)
  PROVE  /\ Starts(h) \in Seq(Past)
         /\ Len(Starts(h)) = Len(Places(h, StateChanges(h)))
         /\ DOMAIN Starts(h) = 1..Len(Starts(h))
         /\ \A j \in DOMAIN Starts(h) : Places(h, StateChanges(h))[j] \in 1..Len(h)
              /\ Starts(h)[j] = h[Places(h, StateChanges(h))[j]]
<1>1. PICK p : p = Places(h, StateChanges(h))
  OBVIOUS
<1>2. Len(h) \in Nat
  OBVIOUS
<1>3. p \in Seq(1..Len(h))
  BY <1>1, <1>2, PlacesAscend
<1>4. \A j \in DOMAIN p : p[j] \in 1..Len(h)
  BY <1>3
<1>5. \A j \in 1..Len(p) : h[p[j]] \in Past
  BY <1>3, <1>4
<1>6. Starts(h) = [j \in 1..Len(p) |-> h[p[j]]]
  BY <1>1, <1>3 DEF Starts
<1>7. Len(p) \in Nat /\ DOMAIN p = 1..Len(p)
  BY <1>3
<1>8. Starts(h) \in Seq(Past) /\ Len(Starts(h)) = Len(p)
  BY <1>5, <1>6, <1>7
<1> QED
  BY <1>1, <1>4, <1>6, <1>7, <1>8

(* The quotients Math.floor() is called with have a number for a result. *)
LEMMA FloorTyped ==
  ASSUME NEW a \in Int, NEW b \in Int
  PROVE  Floor(a, b) \in Int
<1>1. CASE b > 0
  BY <1>1 DEF Floor
<1>2. CASE b < 0
  BY <1>2 DEF Floor
<1>3. CASE b = 0
  BY <1>3 DEF Floor
<1> QED
  BY <1>1, <1>2, <1>3

(* The duration and the pixels of a box are numbers, and the chart ends after the
   last entry. *)
LEMMA BoxesTyped ==
  ASSUME NEW h \in Seq(Past), h # <<>>, NEW now \in Nat
  PROVE  /\ RenderTime(h, now) \in Nat /\ RenderTime(h, now) > Last(h).timestamp
         /\ h[1].timestamp \in Nat
         /\ \A j \in DOMAIN Starts(h) :
              /\ Duration(h, now, j) \in Int
              /\ Pixels(h, now, j) \in Int
              /\ Starts(h)[j].timestamp \in Nat
<1>1. \A i \in DOMAIN h : h[i].timestamp \in Nat
  <2>1. \A i \in DOMAIN h : h[i] \in Past
    OBVIOUS
  <2> QED
    BY <2>1 DEF Past
<1>2. Len(h) \in Nat \ {0} /\ DOMAIN h = 1..Len(h) /\ Last(h) = h[Len(h)]
  BY EmptySeq DEF Last
<1>3. h[1].timestamp \in Nat /\ Last(h).timestamp \in Nat
  BY <1>1, <1>2
<1>4. RenderTime(h, now) \in Nat /\ RenderTime(h, now) > Last(h).timestamp
  BY <1>3 DEF RenderTime
<1>5. PICK s : s = Starts(h)
  OBVIOUS
<1>6. Len(s) \in Nat /\ DOMAIN s = 1..Len(s)
      /\ \A j \in DOMAIN s : s[j].timestamp \in Nat
  <2>1. /\ s \in Seq(Past) /\ DOMAIN s = 1..Len(s)
        /\ \A j \in DOMAIN s : Places(h, StateChanges(h))[j] \in 1..Len(h)
                                /\ s[j] = h[Places(h, StateChanges(h))[j]]
    BY <1>5, StartsTyped
  <2> QED
    BY <1>1, <1>2, <2>1
<1>7. ASSUME NEW j \in DOMAIN s
      PROVE  Duration(h, now, j) \in Int /\ Pixels(h, now, j) \in Int
  <2>1. Until(s, j, RenderTime(h, now)) \in Int
    <3>1. CASE j = Len(s)
      BY <1>4, <3>1 DEF Until
    <3>2. CASE j # Len(s)
      <4>1. j + 1 \in DOMAIN s
        BY <1>6, <3>2
      <4> QED
        BY <1>6, <3>2, <4>1 DEF Until
    <3> QED
      BY <3>1, <3>2
  <2>2. Duration(h, now, j) \in Int
    BY <1>5, <1>6, <2>1 DEF Duration
  <2>3. Duration(h, now, j) * GraphWidth \in Int
    BY <2>2, ChartsAssumption
  <2>4. RenderTime(h, now) - h[1].timestamp \in Int
    BY <1>3, <1>4
  <2> QED
    BY <2>2, <2>3, <2>4, FloorTyped DEF Pixels
<1> QED
  BY <1>3, <1>4, <1>5, <1>6, <1>7

(* mountStateChangesArray(), by its parts. *)
LEMMA MountIs ==
  ASSUME NEW h, NEW now
  PROVE  MountStateChangesArray(h, now) =
           [j \in DOMAIN Starts(h) |->
              [timestamp |-> Starts(h)[j].timestamp,
               value |-> Starts(h)[j].return_code,
               duration |-> Duration(h, now, j),
               pixels |-> Pixels(h, now, j)]]
BY DEF MountStateChangesArray, Starts, Duration, Pixels

(* The chart of a history ends at a whole pixel. *)
LEMMA XAfterTyped ==
  ASSUME NEW k, NEW h \in Seq(Past), h # <<>>
  PROVE  XAfter(k, h) \in Int
<1>1. Last(h).timestamp \in Nat
  BY LastIn DEF Past
<1>2. PICK now \in Nat : now = Last(h).timestamp
  BY <1>1
<1>3. PICK n \in Nat : DOMAIN Starts(h) = 1..n
  BY StartsTyped, LenProperties
<1>4. PICK boxes : boxes = MountStateChangesArray(h, now)
  OBVIOUS
<1>5. DOMAIN boxes = 1..n /\ \A j \in 1..n : boxes[j].pixels = Pixels(h, now, j)
  BY <1>3, <1>4, MountIs
<1>6. \A j \in 1..n : boxes[j].pixels \in Int
  BY <1>3, <1>5, BoxesTyped
<1>7. [j \in DOMAIN boxes |-> boxes[j].pixels] \in Seq(Int)
  BY <1>5, <1>6
<1>8. Drawn(boxes) \in Int
  BY <1>7, TotalTyped DEF Drawn
<1> QED
  BY <1>2, <1>4, <1>8 DEF XAfter

(* A set that is attached comes as a list of its elements, each once. *)
LEMMA SetToSeqLists ==
  ASSUME NEW K, IsFiniteSet(K)
  PROVE  /\ SetToSeq(K) \in Seq(K)
         /\ Range(SetToSeq(K)) = K
         /\ \A i, j \in DOMAIN SetToSeq(K) : SetToSeq(K)[i] = SetToSeq(K)[j] => i = j
<1>1. PICK n \in Nat : n = Cardinality(K) /\ ExistsBijection(1..n, K)
  <2>1. PICK n \in Nat : ExistsBijection(1..n, K)
    BY FS_NatBijection
  <2> QED
    BY <2>1, FS_CountingElements
<1>2. \E f \in [1..n -> K] : IsInjective(f)
  BY <1>1 DEF ExistsBijection, Bijection, Injection
<1>3. PICK f : f = SetToSeq(K)
  OBVIOUS
<1>4. f \in [1..n -> K] /\ IsInjective(f)
  BY <1>1, <1>2, <1>3 DEF SetToSeq
<1>5. f \in Seq(K) /\ DOMAIN f = 1..n
  BY <1>4
<1>6. \A i, j \in DOMAIN f : f[i] = f[j] => i = j
  BY <1>4 DEF IsInjective
<1>7. Range(f) = K
  <2>1. f \in Bijection(1..n, Range(f))
    BY <1>4, <1>5, <1>6 DEF Bijection, Injection, Surjection, Range, IsInjective
  <2>2. ExistsBijection(1..n, Range(f))
    BY <2>1 DEF ExistsBijection
  <2>3. Cardinality(Range(f)) = n
    BY <2>2, FS_CountingElements
  <2>4. Range(f) \subseteq K
    BY <1>4 DEF Range
  <2> QED
    BY <1>1, <2>3, <2>4, FS_Subset
<1> QED
  BY <1>3, <1>5, <1>6, <1>7

(* The lists are of events the phone has. *)
ListsTyped ==
  /\ lists \in [Lists -> Seq(Services)]
  /\ attachedTo \in [Services -> SUBSET Lists]
  /\ evts \subseteq Services
  /\ \A l \in Lists : \A i \in DOMAIN lists[l] : Known(lists[l][i])

(* So are the charts, and the details page once it has been shown. *)
ChartsTyped ==
  /\ drawn \in [Graphs -> [service : Services, historicData : Seq(Past)]
                          \cup {NoEvent}]
  /\ x \in [Services -> Int]
  /\ changes \subseteq Services
  /\ resized \in BOOLEAN
  /\ \A k \in Services : charts[k] # {} => Known(k)
  /\ \A i \in DOMAIN trail : trail[i] = Details => evt \in Services

LogTyped ==
  /\ log \in Seq(Services \X States)
  /\ unfinished \subseteq Services

KnownGrows == \A k \in Services : Known(k) => servicesLastStates'[k] # NoEvent

(* attach() of an event the phone has. *)
LEMMA AttachTyped ==
  ASSUME ListsTyped, KnownGrows, UNCHANGED evts,
         NEW k \in Services, servicesLastStates'[k] # NoEvent,
         NEW where \in Lists, Attach(k, where)
  PROVE  ListsTyped'
<1>1. PICK list : list = lists[where]
  OBVIOUS
<1>2. list \in Seq(Services) /\ <<k>> \in Seq(Services)
  BY <1>1 DEF ListsTyped
<1>3. PICK new : new = <<k>> \o list
  OBVIOUS
<1>4. new \in Seq(Services)
  BY <1>2, <1>3
<1>5. lists' = [lists EXCEPT ![where] = new]
      /\ attachedTo' = [attachedTo EXCEPT ![k] = @ \cup {where}]
  BY <1>1, <1>3 DEF Attach
<1>6. \A i \in DOMAIN new : new[i] = k \/ \E j \in DOMAIN list : new[i] = list[j]
  <2>1. DOMAIN new = 1..(Len(list) + 1) /\ DOMAIN list = 1..Len(list)
        /\ Len(list) \in Nat /\ new[1] = k
        /\ \A i \in 2..(Len(list) + 1) : new[i] = list[i - 1]
    BY <1>2, <1>3
  <2>2. ASSUME NEW i \in DOMAIN new, i # 1 PROVE \E j \in DOMAIN list : new[i] = list[j]
    <3>1. i - 1 \in DOMAIN list /\ new[i] = list[i - 1]
      BY <2>1, <2>2
    <3> QED
      BY <3>1
  <2> QED
    BY <2>1, <2>2
<1>7. lists' \in [Lists -> Seq(Services)] /\ lists'[where] = new
      /\ \A l \in Lists \ {where} : lists'[l] = lists[l]
  BY <1>4, <1>5 DEF ListsTyped
<1>8. attachedTo' \in [Services -> SUBSET Lists]
  BY <1>5 DEF ListsTyped
<1>9. ASSUME NEW l \in Lists, NEW i \in DOMAIN lists'[l]
      PROVE  servicesLastStates'[lists'[l][i]] # NoEvent
  <2>1. CASE l = where
    <3>1. CASE new[i] = k
      BY <1>7, <2>1, <3>1
    <3>2. CASE \E j \in DOMAIN list : new[i] = list[j]
      <4>1. PICK j \in DOMAIN list : new[i] = list[j]
        BY <3>2
      <4>2. list[j] \in Services /\ Known(list[j])
        BY <1>1, <1>2 DEF ListsTyped
      <4> QED
        BY <1>7, <2>1, <4>1, <4>2 DEF KnownGrows
    <3> QED
      BY <1>6, <1>7, <1>9, <2>1, <3>1, <3>2
  <2>2. CASE l # where
    <3>1. lists'[l] = lists[l]
      BY <1>7, <2>2
    <3>2. lists[l][i] \in Services /\ Known(lists[l][i])
      BY <1>9, <3>1 DEF ListsTyped
    <3> QED
      BY <3>1, <3>2 DEF KnownGrows
  <2> QED
    BY <2>1, <2>2
<1> QED
  BY <1>7, <1>8, <1>9 DEF ListsTyped, Known

(* detach() of any events. *)
LEMMA DetachTyped ==
  ASSUME ListsTyped, KnownGrows, evts' \subseteq Services,
         NEW K, NEW where \in Lists, Detach(K, where)
  PROVE  ListsTyped'
<1>1. PICK list : list = lists[where]
  OBVIOUS
<1>2. list \in Seq(Services)
  BY <1>1 DEF ListsTyped
<1>3. PICK new : new = Kept(list, Services \ K)
  OBVIOUS
<1>4. new \in Seq(Services) /\ \A i \in DOMAIN new : \E j \in DOMAIN list : new[i] = list[j]
  <2>1. PICK S : S = Services \ K
    OBVIOUS
  <2>2. new \in Seq(Services) /\ WasThere(list, S, new)
    BY <1>2, <1>3, <2>1, KeptStays
  <2> QED
    BY <2>2, Zenon DEF WasThere
<1>5. lists' = [lists EXCEPT ![where] = new]
      /\ attachedTo' = [k \in Services |->
           IF k \in K THEN attachedTo[k] \ {where} ELSE attachedTo[k]]
  BY <1>1, <1>3 DEF Detach
<1>6. lists' \in [Lists -> Seq(Services)] /\ lists'[where] = new
      /\ \A l \in Lists \ {where} : lists'[l] = lists[l]
  BY <1>4, <1>5 DEF ListsTyped
<1>7. attachedTo' \in [Services -> SUBSET Lists]
  BY <1>5 DEF ListsTyped
<1>8. ASSUME NEW l \in Lists, NEW i \in DOMAIN lists'[l]
      PROVE  servicesLastStates'[lists'[l][i]] # NoEvent
  <2>1. \E j \in DOMAIN lists[l] : lists'[l][i] = lists[l][j]
    <3>1. CASE l = where
      BY <1>1, <1>4, <1>6, <1>8, <3>1
    <3>2. CASE l # where
      BY <1>6, <1>8, <3>2
    <3> QED
      BY <3>1, <3>2
  <2>2. PICK j \in DOMAIN lists[l] : lists'[l][i] = lists[l][j]
    BY <2>1
  <2>3. lists[l][j] \in Services /\ Known(lists[l][j])
    BY DEF ListsTyped
  <2> QED
    BY <2>2, <2>3 DEF KnownGrows
<1> QED
  BY <1>6, <1>7, <1>8 DEF ListsTyped, Known

(* The end of addEvent(). *)
LEMMA ListEventTyped ==
  ASSUME ListsTyped, KnownGrows, UNCHANGED evts,
         NEW k \in Services, servicesLastStates'[k] # NoEvent,
         NEW code, ListEvent(k, code)
  PROVE  ListsTyped'
<1>1. EventsList \in Lists
  BY DEF Lists
<1>2. CASE UNCHANGED listVars
  <2>1. \A l \in Lists : \A i \in DOMAIN lists[l] :
          lists[l][i] \in Services /\ Known(lists[l][i])
    BY DEF ListsTyped
  <2> QED
    BY <1>2, <2>1 DEF ListsTyped, KnownGrows, listVars, Known
<1>3. CASE Detach({k}, EventsList)
  <2>1. evts' \subseteq Services
    BY DEF ListsTyped
  <2> QED
    BY <1>1, <1>3, <2>1, DetachTyped
<1>4. CASE Attach(k, EventsList)
  BY <1>1, <1>4, AttachTyped
<1> QED
  BY <1>2, <1>3, <1>4 DEF ListEvent

(* A step that leaves the lists as they are. *)
LEMMA ListsTypedFrame ==
  ASSUME ListsTyped, KnownGrows, UNCHANGED <<listVars, evts>>
  PROVE  ListsTyped'
<1>1. \A l \in Lists : \A i \in DOMAIN lists[l] :
        lists[l][i] \in Services /\ Known(lists[l][i])
  BY DEF ListsTyped
<1> QED
  BY <1>1 DEF ListsTyped, KnownGrows, listVars, Known

(* Leaving a page. *)
LEMMA LeaveTyped ==
  ASSUME ListsTyped, KnownGrows, Leave
  PROVE  ListsTyped'
<1>1. HostList \in Lists
  BY DEF Lists
<1>2. CASE Hide
  <2>1. evts' \subseteq Services
    BY <1>2 DEF Hide
  <2> QED
    BY <1>1, <1>2, <2>1, DetachTyped DEF Hide
<1>3. CASE UNCHANGED <<evts, listVars>>
  BY <1>3, ListsTypedFrame
<1> QED
  BY <1>2, <1>3 DEF Leave

(* An event the phone has has a history. *)
LEMMA HistoryThere ==
  ASSUME DataTyped, HistoryInv, NEW k \in Services, Known(k)
  PROVE  HistoricData(k) \in Seq(Past) /\ HistoricData(k) # <<>>
<1>1. PICK h : h = HistoricData(k)
  OBVIOUS
<1>2. h \in Seq(Past)
  BY <1>1, HistoryTyped
<1>3. Len(h) \in 1..MaxHistoricData
  BY <1>1 DEF HistoryInv, Leads, HistoricData
<1>4. h # <<>>
  BY <1>3
<1> QED
  BY <1>1, <1>2, <1>4

(* Drawing some charts of an event. *)
LEMMA DrawTyped ==
  ASSUME ChartsTyped, NEW graphs, NEW k \in Services, NEW h \in Seq(Past), h # <<>>,
         Draw(graphs, k, h)
  PROVE  /\ drawn' \in [Graphs -> [service : Services, historicData : Seq(Past)]
                                  \cup {NoEvent}]
         /\ x' \in [Services -> Int]
         /\ resized' \in BOOLEAN
<1>1. PICK T : T = [service : Services, historicData : Seq(Past)]
  OBVIOUS
<1>2. [service |-> k, historicData |-> h] \in T
  BY <1>1
<1>3. PICK d \in T : d = [service |-> k, historicData |-> h]
  BY <1>2
<1>4. drawn \in [Graphs -> T \cup {NoEvent}]
  BY <1>1 DEF ChartsTyped
<1>5. drawn' = [g \in Graphs |-> IF g \in graphs THEN d ELSE drawn[g]]
  BY <1>3 DEF Draw
<1>6. drawn' \in [Graphs -> T \cup {NoEvent}]
  BY <1>4, <1>5
<1>7. PICK n \in Int : n = XAfter(k, h)
  BY XAfterTyped
<1>8. x' = IF Evolution \in graphs THEN [x EXCEPT ![k] = n] ELSE x
  BY <1>7 DEF Draw
<1>9. x' \in [Services -> Int] /\ resized' \in BOOLEAN
  BY <1>8 DEF ChartsTyped, Draw
<1> QED
  BY <1>1, <1>6, <1>9

(* A step that draws nothing, takes away charts at most and comes to no page with
   details it did not come from. *)
LEMMA ChartsTypedFrame ==
  ASSUME ChartsTyped, KnownGrows,
         UNCHANGED <<drawn, x, resized, evt>>, changes' \subseteq Services,
         \A k \in Services : charts'[k] \subseteq charts[k],
         \A i \in DOMAIN trail' : trail'[i] = Details =>
           \E j \in DOMAIN trail : trail[j] = Details
  PROVE  ChartsTyped'
<1>1. \A k \in Services : charts'[k] # {} => servicesLastStates'[k] # NoEvent
  BY DEF ChartsTyped, KnownGrows
<1>2. \A i \in DOMAIN trail' : trail'[i] = Details => evt' \in Services
  BY DEF ChartsTyped
<1> QED
  BY <1>1, <1>2 DEF ChartsTyped, Known

(* A page that is changed to is the only one that is new on the trail. *)
LEMMA ChangedTrail ==
  ASSUME PagesTyped, NEW page \in Pages, ChangePage(page)
  PROVE  \A i \in DOMAIN trail' : trail'[i] = page
                                  \/ \E j \in DOMAIN trail : trail'[i] = trail[j]
<1>1. PICK t \in Seq(Pages) : t = trail
  BY DEF PagesTyped
<1>2. trail' = Append(t, page)
  BY <1>1 DEF ChangePage
<1>3. \A i \in DOMAIN trail' : \/ i \in DOMAIN t /\ trail'[i] = t[i]
                               \/ trail'[i] = page
  BY <1>2, AppendAt
<1> QED
  BY <1>1, <1>3

(* Stepping back shows nothing new. *)
LEMMA FrontTrail ==
  ASSUME PagesTyped, Len(trail) > 1, trail' = Front(trail)
  PROVE  \A i \in DOMAIN trail' : \E j \in DOMAIN trail : trail'[i] = trail[j]
<1>1. PICK t \in Seq(Pages) : t = trail
  BY DEF PagesTyped
<1>2. PICK n \in Int : n = Len(t) - 1
  OBVIOUS
<1>3. 1 <= n /\ \A i \in 1..n : t[i] \in Pages
  BY <1>1, <1>2
<1>4. PICK s : s = SubSeq(t, 1, n)
  OBVIOUS
<1>5. s \in Seq(Pages) /\ Len(s) = n /\ \A i \in 1..n : s[i] = t[1 + i - 1]
  <2>1. s \in Seq(Pages) /\ Len(s) = (IF 1 <= n THEN n - 1 + 1 ELSE 0)
        /\ \A i \in 1..(n - 1 + 1) : s[i] = t[1 + i - 1]
    BY <1>3, <1>4, SubSeqProperties
  <2> QED
    BY <1>3, <2>1
<1>6. \A i \in DOMAIN s : i \in DOMAIN t /\ s[i] = t[i]
  BY <1>1, <1>2, <1>3, <1>5
<1>7. trail' = s
  BY <1>1, <1>2, <1>4 DEF Front
<1> QED
  BY <1>1, <1>6, <1>7

-----------------------------------------------------------------------------
(* What a message changes, the host page and the details page. *)

DomainInv == ListsTyped /\ ChartsTyped /\ LogTyped /\ Main!TypeOK

(* The step of a handler of pages or charts, which has no event of its own. *)
LEMMA NoEventComes ==
  ASSUME servicesLastStates' = servicesLastStates
  PROVE  KnownGrows
BY DEF KnownGrows, Known

(* A message counts under its code. *)
LEMMA MessageCounted ==
  ASSUME Main!TypeOK, NEW code \in States, Main!NewEvent(code)
  PROVE  (Main!TypeOK)'
BY DEF Main!TypeOK, Main!NewEvent

(* Every second makes a column of every state. *)
LEMMA SecondDrawn ==
  ASSUME Main!TypeOK, NEW n \in Nat, Main!Refresh(n)
  PROVE  (Main!TypeOK)'
<1>1. ASSUME NEW c \in States
      PROVE  Append(Tail(historicDataArrays[c]),
               IF plot THEN eventsDelta[c] ELSE Last(historicDataArrays[c])) \in Seq(Nat)
             /\ Len(Append(Tail(historicDataArrays[c]),
               IF plot THEN eventsDelta[c] ELSE Last(historicDataArrays[c]))) = MaxEntries
  <2>1. PICK a : a = historicDataArrays[c]
    OBVIOUS
  <2>2. a \in Seq(Nat) /\ Len(a) = MaxEntries /\ a # <<>>
    BY <2>1, BoundsAssumption DEF Main!TypeOK
  <2>3. PICK e : e = IF plot THEN eventsDelta[c] ELSE Last(a)
    OBVIOUS
  <2>4. e \in Nat
    BY <2>2, <2>3, LastIn DEF Main!TypeOK
  <2>5. Append(Tail(a), e) \in Seq(Nat) /\ Len(Append(Tail(a), e)) = MaxEntries
    BY <2>2, <2>4
  <2> QED
    BY <2>1, <2>3, <2>5
<1>2. historicDataArrays' = [c \in States |-> Append(Tail(historicDataArrays[c]),
               IF plot THEN eventsDelta[c] ELSE Last(historicDataArrays[c]))]
  BY DEF Main!Refresh, Main!Last, Last
<1>3. /\ historicDataArrays' \in [States -> Seq(Nat)]
      /\ \A c \in States : Len(historicDataArrays'[c]) = MaxEntries
  BY <1>1, <1>2
<1>4. eventsDelta' \in [States -> Nat]
  BY DEF Main!Refresh, Main!DeltaAfterRefresh, Main!None
<1>5. plot' \in BOOLEAN /\ counts' \in [States -> Nat] /\ seconds' \in Seq(Nat)
  <2>1. plot' = FALSE /\ counts' = counts /\ seconds' = Append(seconds, n)
    BY Zenon DEF Main!Refresh
  <2>2. plot' \in BOOLEAN
    BY <2>1
  <2>3. counts \in [States -> Nat] /\ seconds \in Seq(Nat)
    BY DEF Main!TypeOK
  <2>4. counts' \in [States -> Nat] /\ seconds' \in Seq(Nat)
    BY <2>1, <2>3
  <2> QED
    BY <2>2, <2>4
<1> QED
  BY <1>3, <1>4, <1>5 DEF Main!TypeOK

(* What leaves the main page alone keeps the kinds of its values. *)
LEMMA MainUntouched ==
  ASSUME Main!TypeOK, UNCHANGED mainVars
  PROVE  (Main!TypeOK)'
BY DEF Main!TypeOK, mainVars

(* addEvent(): the list, the chart, the log and the counters. *)
LEMMA AddEventTyped ==
  ASSUME DataTyped, DataTyped', PagesTyped, HistoryInv', DomainInv,
         NEW msg \in Message, AddEvent(msg)
  PROVE  DomainInv'
<1>1. PICK k \in Services : k = msg.service
  BY DEF Message
<1>2. PICK event : event = Updated(HistoricData(k), msg)
  OBVIOUS
<1>3. PICK h : h = event.historicData
  OBVIOUS
<1>4. PICK code : code = Normalised(msg.result.return_code)
  OBVIOUS
<1>5. /\ servicesLastStates' = [servicesLastStates EXCEPT ![k] = event]
      /\ UNCHANGED <<evt, tab, changes, evts, trail>>
      /\ \/ /\ \/ Visible(k) = {} /\ UNCHANGED chartVars
               \/ \E g \in Visible(k) : Rerender(g, k, h)
            /\ log' = Append(log, <<k, code>>)
            /\ Main!NewEvent(code)
            /\ ListEvent(k, code)
            /\ unfinished' = unfinished \ {k}
         \/ /\ \E g \in Visible(k) : RerenderThrows(g, k, h)
            /\ unfinished' = unfinished \cup {k}
            /\ UNCHANGED <<log, mainVars, listVars>>
  BY <1>1, <1>2, <1>3, <1>4 DEF AddEvent, pageVars
<1>6. event \in Event /\ event # NoEvent /\ code \in States
  <2>1. HistoricData(k) \in Seq(Past)
    BY HistoryTyped
  <2>2. Updated(HistoricData(k), msg) \in Event
    BY <2>1, UpdatedTyped DEF Message
  <2>3. code \in States
    BY <1>4 DEF Normalised, States, OK, UNKNOWN
  <2> QED
    BY <1>2, <2>2, <2>3, NoEventAssumption
<1>7. servicesLastStates'[k] = event /\ KnownGrows
  BY <1>5, <1>6 DEF DataTyped, KnownGrows, Known
<1>8. h \in Seq(Past) /\ h # <<>>
  <2>1. Len(h) \in 1..MaxHistoricData
    BY <1>3, <1>6, <1>7 DEF HistoryInv, Leads, Known
  <2> QED
    BY <1>3, <1>6, <2>1 DEF Event
<1>9. ListsTyped'
  <2>1. CASE ListEvent(k, code)
    BY <1>5, <1>6, <1>7, <2>1, ListEventTyped DEF DomainInv
  <2>2. CASE UNCHANGED listVars
    BY <1>5, <1>7, <2>2, ListsTypedFrame DEF DomainInv
  <2> QED
    BY <1>5, <2>1, <2>2
<1>10. ChartsTyped'
  <2>1. CASE UNCHANGED chartVars
    BY <1>5, <1>7, <2>1, ChartsTypedFrame DEF DomainInv, ChartsTyped, chartVars
  <2>2. ASSUME NEW g \in Visible(k), Rerender(g, k, h) PROVE ChartsTyped'
    <3>1. charts' = charts /\ Draw({g}, k, h)
      BY <2>2 DEF Rerender
    <3>2. /\ drawn' \in [Graphs -> [service : Services, historicData : Seq(Past)]
                                    \cup {NoEvent}]
          /\ x' \in [Services -> Int]
          /\ resized' \in BOOLEAN
      BY <1>8, <3>1, DrawTyped DEF DomainInv
    <3>3. \A j \in Services : charts'[j] # {} => servicesLastStates'[j] # NoEvent
      BY <1>7, <3>1 DEF DomainInv, ChartsTyped, KnownGrows
    <3> QED
      BY <1>5, <3>2, <3>3 DEF DomainInv, ChartsTyped, Known
  <2>3. ASSUME NEW g \in Visible(k), RerenderThrows(g, k, h) PROVE ChartsTyped'
    <3>1. charts' = [charts EXCEPT ![k] = @ \ {g}] /\ UNCHANGED <<drawn, x, resized>>
      BY <2>3 DEF RerenderThrows
    <3>2. \A j \in Services : charts'[j] \subseteq charts[j]
      BY <3>1 DEF PagesTyped
    <3> QED
      BY <1>5, <1>7, <3>1, <3>2, ChartsTypedFrame DEF DomainInv, ChartsTyped
  <2> QED
    BY <1>5, <2>1, <2>2, <2>3
<1>11. LogTyped'
  <2>1. <<k, code>> \in Services \X States
    BY <1>6
  <2>2. log' = Append(log, <<k, code>>) \/ log' = log
    BY <1>5
  <2>3. log' \in Seq(Services \X States)
    BY <2>1, <2>2 DEF DomainInv, LogTyped
  <2>4. unfinished' = unfinished \ {k} \/ unfinished' = unfinished \cup {k}
    BY <1>5
  <2> QED
    BY <2>3, <2>4 DEF DomainInv, LogTyped
<1>12. (Main!TypeOK)'
  BY <1>5, <1>6, MessageCounted, MainUntouched DEF DomainInv
<1> QED
  BY <1>9, <1>10, <1>11, <1>12 DEF DomainInv

(* The host page attaches the events of its host the phone has. *)
LEMMA HostPageTyped ==
  ASSUME PagesTyped, DomainInv, NEW host, GoToHostDetailedView(host)
  PROVE  DomainInv'
<1>1. PICK K : K = {k \in Services : Known(k) /\ HostOf[k] = host}
  OBVIOUS
<1>2. /\ UNCHANGED <<eventVars, strayed, detailVars, mainVars, log>>
      /\ ChangePage("#host-cockpit")
      /\ evts' = evts \cup K
      /\ lists' = [lists EXCEPT ![HostList] = SetToSeq(K) \o @]
      /\ attachedTo' = [k \in Services |->
           IF k \in K THEN attachedTo[k] \cup {HostList} ELSE attachedTo[k]]
  BY <1>1 DEF GoToHostDetailedView
<1>3. KnownGrows
  BY <1>2, NoEventComes DEF eventVars
<1>4. PICK s : s = SetToSeq(K)
  OBVIOUS
<1>5. s \in Seq(K) /\ K \subseteq Services /\ \A k \in K : Known(k)
  <2>1. IsFiniteSet(K)
    BY <1>1, ServicesAssumption, FS_Subset
  <2> QED
    BY <1>1, <1>4, <2>1, SetToSeqLists
<1>6. PICK list : list = lists[HostList]
  OBVIOUS
<1>7. HostList \in Lists
  BY DEF Lists
<1>8. list \in Seq(Services) /\ \A i \in DOMAIN list : list[i] \in Services /\ Known(list[i])
  BY <1>6, <1>7 DEF DomainInv, ListsTyped
<1>9. PICK new : new = s \o list
  OBVIOUS
<1>10. new \in Seq(Services) /\ \A i \in DOMAIN new : Known(new[i])
  <2>1. /\ DOMAIN s = 1..Len(s) /\ DOMAIN list = 1..Len(list)
        /\ Len(s) \in Nat /\ Len(list) \in Nat
        /\ DOMAIN new = 1..(Len(s) + Len(list)) /\ Len(new) = Len(s) + Len(list)
        /\ \A i \in 1..Len(s) : new[i] = s[i]
        /\ \A i \in (Len(s) + 1)..(Len(s) + Len(list)) : new[i] = list[i - Len(s)]
    BY <1>5, <1>8, <1>9
  <2>2. s \in Seq(Services)
    BY <1>5
  <2>3. new \in Seq(Services)
    BY <1>8, <1>9, <2>2
  <2>4. ASSUME NEW i \in DOMAIN new PROVE Known(new[i])
    <3>1. CASE i \in DOMAIN s
      BY <1>5, <2>1, <3>1
    <3>2. CASE i \notin DOMAIN s
      <4>1. i - Len(s) \in DOMAIN list /\ new[i] = list[i - Len(s)]
        BY <2>1, <3>2
      <4> QED
        BY <1>8, <4>1
    <3> QED
      BY <3>1, <3>2
  <2> QED
    BY <2>3, <2>4
<1>11. lists' = [lists EXCEPT ![HostList] = new]
  BY <1>2, <1>4, <1>6, <1>9
<1>12. lists' \in [Lists -> Seq(Services)] /\ lists'[HostList] = new
       /\ \A l \in Lists \ {HostList} : lists'[l] = lists[l]
  BY <1>7, <1>10, <1>11 DEF DomainInv, ListsTyped
<1>13. \A l \in Lists : \A i \in DOMAIN lists'[l] : Known(lists'[l][i])
  BY <1>10, <1>12 DEF DomainInv, ListsTyped
<1>14. ListsTyped'
  <2>1. servicesLastStates' = servicesLastStates
    BY <1>2 DEF eventVars
  <2>2. attachedTo' \in [Services -> SUBSET Lists]
    BY <1>2, <1>7 DEF DomainInv, ListsTyped
  <2>3. evts' \subseteq Services
    BY <1>2, <1>5 DEF DomainInv, ListsTyped
  <2> QED
    BY <1>12, <1>13, <2>1, <2>2, <2>3 DEF ListsTyped, Known
<1>15. ChartsTyped'
  <2>1. "#host-cockpit" \in Pages /\ "#host-cockpit" # Details
    BY DEF Pages, Details
  <2>2. \A i \in DOMAIN trail' : trail'[i] = Details =>
          \E j \in DOMAIN trail : trail[j] = Details
    BY <1>2, <2>1, ChangedTrail
  <2> QED
    BY <1>2, <1>3, <2>2, ChartsTypedFrame
       DEF DomainInv, ChartsTyped, detailVars, chartVars
<1>16. LogTyped' /\ (Main!TypeOK)'
  BY <1>2, MainUntouched DEF DomainInv, LogTyped, eventVars
<1> QED
  BY <1>14, <1>15, <1>16 DEF DomainInv

(* A step that leaves a page and draws nothing. *)
LEMMA LeaveKeeps ==
  ASSUME DomainInv, Leave \/ Hide, UNCHANGED <<eventVars, detailVars, mainVars, log>>,
         \A i \in DOMAIN trail' : trail'[i] = Details =>
           \E j \in DOMAIN trail : trail[j] = Details
  PROVE  DomainInv'
<1>1. KnownGrows
  BY NoEventComes DEF eventVars
<1>2. ListsTyped'
  <2>1. CASE Leave
    BY <1>1, <2>1, LeaveTyped DEF DomainInv
  <2>2. CASE Hide
    <3>1. evts' \subseteq Services /\ HostList \in Lists
      BY <2>2 DEF Hide, Lists
    <3> QED
      BY <1>1, <2>2, <3>1, DetachTyped DEF Hide, DomainInv
  <2> QED
    BY <2>1, <2>2
<1>3. ChartsTyped'
  BY <1>1, ChartsTypedFrame DEF DomainInv, ChartsTyped, detailVars, chartVars
<1>4. LogTyped' /\ (Main!TypeOK)'
  BY MainUntouched DEF DomainInv, LogTyped, eventVars
<1> QED
  BY <1>2, <1>3, <1>4 DEF DomainInv

(* A click on an event draws what it has; only an event the phone has can be
   clicked on. *)
LEMMA ShowEventTyped ==
  ASSUME DataTyped, PagesTyped, HistoryInv, DomainInv, NEW k \in Services, ShowEvent(k)
  PROVE  DomainInv'
<1>1. PICK h : h = HistoricData(k)
  OBVIOUS
<1>2. PICK graphs \in SUBSET Graphs :
        /\ UNCHANGED <<eventVars, tab, mainVars, log>>
        /\ evt' = k
        /\ charts' = [charts EXCEPT ![k] = @ \cup graphs]
        /\ Draw(graphs, k, h)
        /\ \/ changes' = changes /\ UNCHANGED <<evts, trail, listVars>>
           \/ changes' = changes \cup {k} /\ Leave
  <2> DEFINE order == [g \in Graphs |->
               CASE g = Performance -> 1 [] g = Overview -> 2 [] OTHER -> 3]
             failing == {g \in Graphs \ charts[k] : Throws(g, h)}
             rendered == {g \in Graphs \ charts[k] : \A f \in failing : order[g] < order[f]}
  <2>1. rendered \in SUBSET Graphs
    OBVIOUS
  <2>2. /\ UNCHANGED <<eventVars, tab, mainVars, log>>
        /\ evt' = k
        /\ charts' = [charts EXCEPT ![k] = @ \cup rendered]
        /\ Draw(rendered, k, h)
        /\ \/ changes' = changes /\ UNCHANGED <<evts, trail, listVars>>
           \/ changes' = changes \cup {k} /\ Leave
    BY <1>1, Zenon DEF ShowEvent
  <2> HIDE DEF order, failing, rendered
  <2> QED
    BY <2>1, <2>2
<1>3. Known(k)
  <2>1. PICK l \in Lists : k \in Range(lists[l])
    <3>1. EventsList \in Lists /\ HostList \in Lists
      BY DEF Lists
    <3>2. k \in Range(lists[EventsList]) \/ k \in Range(lists[HostList])
      BY DEF ShowEvent
    <3> QED
      BY <3>1, <3>2
  <2>2. PICK i \in DOMAIN lists[l] : lists[l][i] = k
    BY <2>1 DEF Range
  <2> QED
    BY <2>2 DEF DomainInv, ListsTyped
<1>4. h \in Seq(Past) /\ h # <<>>
  BY <1>1, <1>3, HistoryThere
<1>5. KnownGrows /\ servicesLastStates' = servicesLastStates
  BY <1>2, NoEventComes DEF eventVars
<1>6. ListsTyped'
  <2>1. CASE Leave
    BY <1>5, <2>1, LeaveTyped DEF DomainInv
  <2>2. CASE UNCHANGED <<listVars, evts>>
    BY <1>5, <2>2, ListsTypedFrame DEF DomainInv
  <2> QED
    BY <1>2, <2>1, <2>2
<1>7. ChartsTyped'
  <2>1. /\ drawn' \in [Graphs -> [service : Services, historicData : Seq(Past)]
                                  \cup {NoEvent}]
        /\ x' \in [Services -> Int]
        /\ resized' \in BOOLEAN
    BY <1>2, <1>4, DrawTyped DEF DomainInv
  <2>2. changes' \subseteq Services
    BY <1>2 DEF DomainInv, ChartsTyped
  <2>3. \A j \in Services : charts'[j] # {} => Known(j)
    BY <1>2, <1>3 DEF PagesTyped, DomainInv, ChartsTyped
  <2>4. evt' \in Services
    BY <1>2
  <2> QED
    BY <1>5, <2>1, <2>2, <2>3, <2>4 DEF ChartsTyped, Known
<1>8. LogTyped' /\ (Main!TypeOK)'
  BY <1>2, MainUntouched DEF DomainInv, LogTyped, eventVars
<1> QED
  BY <1>6, <1>7, <1>8 DEF DomainInv

(* The tabs of the details page. *)
LEMMA ExpandTyped ==
  ASSUME DataTyped, PagesTyped, HistoryInv, DomainInv, NEW graph \in Graphs, Expand(graph)
  PROVE  DomainInv'
<1>1. PICK h : h = HistoricData(evt)
  OBVIOUS
<1>2. /\ UNCHANGED <<eventVars, listVars, evts, trail, evt, changes, mainVars, log>>
      /\ \/ UNCHANGED chartVars
         \/ Rerender(graph, evt, h)
         \/ RerenderThrows(graph, evt, h)
  BY <1>1 DEF Expand, pageVars
<1>3. evt \in Services
  <2>1. trail \in Seq(Pages) /\ trail # <<>> /\ Last(trail) = Details
    BY DEF PagesTyped, Expand, Page, Details
  <2>2. Len(trail) \in DOMAIN trail /\ trail[Len(trail)] = Details
    BY <2>1 DEF Last
  <2> QED
    BY <2>2 DEF DomainInv, ChartsTyped
<1>4. KnownGrows /\ servicesLastStates' = servicesLastStates
  BY <1>2, NoEventComes DEF eventVars
<1>5. ListsTyped'
  BY <1>2, <1>4, ListsTypedFrame DEF DomainInv
<1>6. ChartsTyped'
  <2>1. CASE UNCHANGED chartVars
    BY <1>2, <1>4, <2>1, ChartsTypedFrame DEF DomainInv, ChartsTyped, chartVars
  <2>2. CASE Rerender(graph, evt, h)
    <3>1. charts' = charts /\ Draw({graph}, evt, h) /\ graph \in charts[evt]
      BY <2>2 DEF Rerender
    <3>2. h \in Seq(Past) /\ h # <<>>
      <4>1. Known(evt)
        BY <1>3, <3>1 DEF DomainInv, ChartsTyped
      <4> QED
        BY <1>1, <1>3, <4>1, HistoryThere
    <3>3. /\ drawn' \in [Graphs -> [service : Services, historicData : Seq(Past)]
                                    \cup {NoEvent}]
          /\ x' \in [Services -> Int]
          /\ resized' \in BOOLEAN
      BY <1>3, <3>1, <3>2, DrawTyped DEF DomainInv
    <3> QED
      BY <1>2, <1>4, <3>1, <3>3 DEF DomainInv, ChartsTyped, Known
  <2>3. CASE RerenderThrows(graph, evt, h)
    <3>1. charts' = [charts EXCEPT ![evt] = @ \ {graph}] /\ UNCHANGED <<drawn, x, resized>>
      BY <2>3 DEF RerenderThrows
    <3>2. \A j \in Services : charts'[j] \subseteq charts[j]
      BY <3>1 DEF PagesTyped
    <3> QED
      BY <1>2, <1>4, <3>1, <3>2, ChartsTypedFrame DEF DomainInv, ChartsTyped
  <2> QED
    BY <1>2, <2>1, <2>2, <2>3
<1>7. LogTyped' /\ (Main!TypeOK)'
  BY <1>2, MainUntouched DEF DomainInv, LogTyped, eventVars
<1> QED
  BY <1>5, <1>6, <1>7 DEF DomainInv

-----------------------------------------------------------------------------
(* The kinds of the values, at every time. *)

(* The window is resized: one count of pixels changes. *)
LEMMA ResizeTyped ==
  ASSUME DomainInv, Resize
  PROVE  DomainInv'
<1>1. PICK k \in Services : x' = [x EXCEPT ![k] = @ + @]
  BY DEF Resize
<1>2. /\ UNCHANGED <<eventVars, listVars, pageVars, evt, charts, drawn, changes, mainVars, log>>
      /\ resized' = TRUE
  BY DEF Resize
<1>3. KnownGrows
  BY <1>2, NoEventComes DEF eventVars
<1>4. ListsTyped'
  BY <1>2, <1>3, ListsTypedFrame DEF DomainInv, pageVars
<1>5. x' \in [Services -> Int] /\ resized' \in BOOLEAN
  BY <1>1, <1>2 DEF DomainInv, ChartsTyped
<1>6. ChartsTyped'
  BY <1>2, <1>5 DEF DomainInv, ChartsTyped, Known, eventVars, pageVars
<1>7. LogTyped' /\ (Main!TypeOK)'
  BY <1>2, MainUntouched DEF DomainInv, LogTyped, eventVars
<1> QED
  BY <1>4, <1>6, <1>7 DEF DomainInv

(* The step that leaves the details page. *)
LEMMA EventBackButtonTyped ==
  ASSUME PagesTyped, DomainInv, EventBackButton
  PROVE  DomainInv'
<1>1. /\ ChangePage("#main")
      /\ charts' = [charts EXCEPT ![evt] = {}]
      /\ changes' = {}
      /\ UNCHANGED <<eventVars, listVars, evts, strayed, evt, tab, drawn, x, resized,
                     mainVars, log>>
  BY DEF EventBackButton, ChangesAfterHide
<1>2. KnownGrows
  BY <1>1, NoEventComes DEF eventVars
<1>3. ListsTyped'
  BY <1>1, <1>2, ListsTypedFrame DEF DomainInv
<1>4. ChartsTyped'
  <2>1. "#main" \in Pages /\ "#main" # Details
    BY DEF Pages, Details
  <2>2. \A i \in DOMAIN trail' : trail'[i] = Details =>
          \E j \in DOMAIN trail : trail[j] = Details
    BY <1>1, <2>1, ChangedTrail
  <2>3. \A k \in Services : charts'[k] \subseteq charts[k]
    BY <1>1 DEF PagesTyped
  <2> QED
    BY <1>1, <1>2, <2>2, <2>3, ChartsTypedFrame DEF DomainInv
<1>5. LogTyped' /\ (Main!TypeOK)'
  BY <1>1, MainUntouched DEF DomainInv, LogTyped, eventVars
<1> QED
  BY <1>3, <1>4, <1>5 DEF DomainInv

(* Every page, list, chart and counter holds what it is made for. *)
THEOREM DomainInvAlways == Spec => []DomainInv
<1>1. Init => DomainInv
  <2> SUFFICES ASSUME Init PROVE DomainInv
    OBVIOUS
  <2>1. <<>> \in Seq(Services) /\ <<>> \in Seq(Services \X States) /\ <<>> \in Seq(Nat)
        /\ DOMAIN <<>> = {}
    OBVIOUS
  <2>2. ListsTyped
    BY <2>1 DEF Init, ListsTyped
  <2>3. drawn \in [Graphs -> [service : Services, historicData : Seq(Past)] \cup {NoEvent}]
    BY DEF Init
  <2>4. trail = <<"#main">> /\ DOMAIN <<"#main">> = {1} /\ "#main" # Details
    BY DEF Init, Details
  <2>5. ChartsTyped
    <3>1. x \in [Services -> Int] /\ changes \subseteq Services
          /\ \A k \in Services : charts[k] = {}
      BY DEF Init
    <3>2. resized \in BOOLEAN
      BY Zenon DEF Init
    <3>3. \A i \in DOMAIN trail : trail[i] # Details
      BY <2>4
    <3> QED
      BY <2>3, <3>1, <3>2, <3>3 DEF ChartsTyped
  <2>6. LogTyped
    BY <2>1 DEF Init, LogTyped
  <2>7. Main!TypeOK
    <3>1. MaxEntries \in Nat
      BY BoundsAssumption
    <3>2. [i \in 1..MaxEntries |-> 0] \in Seq(Nat) /\ Len([i \in 1..MaxEntries |-> 0]) = MaxEntries
      BY <3>1
    <3>3. Main!Init
      BY DEF Init
    <3>4. eventsDelta = Main!None /\ counts = Main!None /\ plot = TRUE /\ seconds = <<>>
          /\ historicDataArrays = [c \in States |-> [i \in 1..MaxEntries |-> 0]]
      BY <3>3 DEF Main!Init
    <3>5. eventsDelta \in [States -> Nat] /\ counts \in [States -> Nat]
      BY <3>4 DEF Main!None
    <3>6. plot \in BOOLEAN /\ seconds \in Seq(Nat)
      BY <2>1, <3>4
    <3> QED
      BY <3>2, <3>4, <3>5, <3>6 DEF Main!TypeOK
  <2> QED
    BY <2>2, <2>5, <2>6, <2>7 DEF DomainInv
<1>2. DetailsInv /\ DetailsInv' /\ HistoryInv /\ HistoryInv' /\ DomainInv /\ [Next]_vars
        => DomainInv'
  <2> SUFFICES ASSUME DataTyped, PagesTyped, HistoryInv, DomainInv, DataTyped',
                      HistoryInv', [Next]_vars
               PROVE  DomainInv'
    BY DEF DetailsInv
  <2>1. ASSUME UNCHANGED <<servicesLastStates, unfinished, listVars, pageVars, detailVars,
                           mainVars, log>>
        PROVE  DomainInv'
    <3>1. ListsTyped'
      BY <2>1 DEF DomainInv, ListsTyped, Known, listVars, pageVars
    <3>2. ChartsTyped'
      BY <2>1 DEF DomainInv, ChartsTyped, Known, pageVars, detailVars, chartVars
    <3>3. LogTyped' /\ (Main!TypeOK)'
      BY <2>1, MainUntouched DEF DomainInv, LogTyped
    <3> QED
      BY <3>1, <3>2, <3>3 DEF DomainInv
  <2>2. ASSUME NEW k \in Services, NEW check \in Checks, Missed(k, check)
        PROVE  DomainInv'
    BY <2>1, <2>2 DEF Missed
  <2>3. ASSUME NEW k \in Services, NEW check \in Checks, Live(k, check)
        PROVE  DomainInv'
    <3>1. Last(results'[k]) \in Past
      BY <2>3, NewResultTyped DEF Live
    <3>2. <<>> \in Seq(Past)
      OBVIOUS
    <3>3. PICK msg : msg = [service |-> k, result |-> Last(results'[k]), historicData |-> <<>>]
      OBVIOUS
    <3>4. msg \in Message
      BY <3>1, <3>2, <3>3 DEF Message
    <3>5. AddEvent(msg)
      BY <2>3, <3>3 DEF Live
    <3> QED
      BY <3>4, <3>5, AddEventTyped
  <2>4. ASSUME NEW k \in Services, NEW m \in 1..MaxResults, Snapshot(k, m)
        PROVE  DomainInv'
    <3>1. PICK s : s = results[k]
      OBVIOUS
    <3>2. s \in Seq(Past) /\ m \in 1..Len(s)
      BY <2>4, <3>1 DEF Snapshot, DataTyped
    <3>3. PICK after : after = SubSeq(s, m + 1, Len(s))
      OBVIOUS
    <3>4. Last(s) \in Past
      <4>1. s # <<>>
        BY <3>2
      <4> QED
        BY <3>2, <4>1, LastIn
    <3>5. after \in Seq(Past)
      <4>1. m + 1 \in 1..(Len(s) + 1)
        BY <3>2
      <4> QED
        BY <3>2, <3>3, <4>1
    <3>6. PICK msg : msg = [service |-> k, result |-> Last(s), historicData |-> Capped(after)]
      OBVIOUS
    <3>7. msg \in Message
      BY <3>4, <3>5, <3>6, CappedTyped DEF Message
    <3>8. AddEvent(msg)
      BY <2>4, <3>1, <3>3, <3>6 DEF Snapshot
    <3> QED
      BY <3>7, <3>8, AddEventTyped
  <2>5. ASSUME NEW host \in Range(HostOf), GoToHostDetailedView(host)
        PROVE  DomainInv'
    BY <2>5, HostPageTyped
  <2>6. CASE BackFromHostDetailedView
    <3>1. "#main" \in Pages /\ "#main" # Details
      BY DEF Pages, Details
    <3>2. \A i \in DOMAIN trail' : trail'[i] = Details =>
            \E j \in DOMAIN trail : trail[j] = Details
      BY <2>6, <3>1, ChangedTrail DEF BackFromHostDetailedView
    <3> QED
      BY <2>6, <3>2, LeaveKeeps DEF BackFromHostDetailedView
  <2>7. ASSUME NEW k \in Services, ShowEvent(k) PROVE DomainInv'
    BY <2>7, ShowEventTyped
  <2>8. ASSUME NEW graph \in Tabs, Expand(graph) PROVE DomainInv'
    BY <2>8, ExpandTyped, BoundsAssumption
  <2>9. CASE Collapse
    <3>1. UNCHANGED <<eventVars, listVars, pageVars, evt, chartVars, changes, mainVars, log>>
      BY <2>9 DEF Collapse
    <3> QED
      BY <3>1, MainUntouched
         DEF DomainInv, ListsTyped, ChartsTyped, LogTyped, Known, eventVars, listVars,
             pageVars, chartVars
  <2>10. CASE Resize
    BY <2>10, ResizeTyped
  <2>11. CASE Refresh
    <3>1. UNCHANGED <<eventVars, listVars, pageVars, detailVars, log>> /\ Main!Refresh(Len(log))
      BY <2>11 DEF Refresh
    <3>2. Len(log) \in Nat
      BY DEF DomainInv, LogTyped
    <3>3. (Main!TypeOK)'
      BY <3>1, <3>2, SecondDrawn DEF DomainInv
    <3> QED
      BY <3>1, <3>3
         DEF DomainInv, ListsTyped, ChartsTyped, LogTyped, Known, eventVars, listVars,
             pageVars, detailVars, chartVars
  <2>12. CASE EventBackButton
    BY <2>12, EventBackButtonTyped
  <2>13. CASE Back
    <3>1. \A i \in DOMAIN trail' : trail'[i] = Details =>
            \E j \in DOMAIN trail : trail[j] = Details
      BY <2>13, FrontTrail DEF Back
    <3> QED
      BY <2>13, <3>1, LeaveKeeps DEF Back
  <2>14. CASE UNCHANGED vars
    BY <2>1, <2>14 DEF vars, eventVars
  <2> QED
    BY <2>2, <2>3, <2>4, <2>5, <2>6, <2>7, <2>8, <2>9, <2>10, <2>11, <2>12, <2>13,
       <2>14 DEF Next
<1> QED
  BY <1>1, <1>2, DetailsInvAlways, HistoryInvAlways, PTL DEF Spec

(* Every field of the phone keeps the kind of value the code stores in it. *)
THEOREM TypeCorrect == Spec => []TypeOK
<1>1. DetailsInv /\ HistoryInv /\ DomainInv => TypeOK
  BY DEF DetailsInv, DataTyped, PagesTyped, HistoryInv, DomainInv, ListsTyped,
         ChartsTyped, LogTyped, TypeOK
<1> QED
  BY <1>1, DetailsInvAlways, HistoryInvAlways, DomainInvAlways, PTL

-----------------------------------------------------------------------------
(* The list of the host page. *)

(* A sequence without places is empty. *)
LEMMA NoPlaces ==
  ASSUME NEW S, NEW s \in Seq(S), DOMAIN s = {}
  PROVE  s = <<>>
<1>1. Len(s) \in Nat /\ 1..Len(s) = {}
  OBVIOUS
<1>2. Len(s) = 0
  BY <1>1
<1> QED
  BY <1>2, EmptySeq

(* A list that is taken off the page, with nothing else on it, leaves it empty. *)
LEMMA AllDetached ==
  ASSUME NEW list \in Seq(Services), NEW K, Range(list) \subseteq K
  PROVE  Kept(list, Services \ K) = <<>>
<1>1. PICK S : S = Services \ K
  OBVIOUS
<1>2. PICK r : r = Kept(list, S)
  OBVIOUS
<1>3. r \in Seq(Services) /\ WasThere(list, S, r)
  BY <1>2, KeptStays
<1>4. ASSUME NEW i \in DOMAIN r PROVE FALSE
  <2>1. PICK j \in DOMAIN list : r[i] = list[j]
    BY <1>3 DEF WasThere
  <2>2. r[i] \in S
    BY <1>3 DEF WasThere
  <2> QED
    BY <1>1, <2>1, <2>2 DEF Range
<1>5. r = <<>>
  <2>1. DOMAIN r = {}
    BY <1>4
  <2> QED
    BY <1>3, <2>1, NoPlaces
<1> QED
  BY <1>1, <1>2, <1>5

(* Hiding the host page takes all it has attached off its list. *)
LEMMA HideClears ==
  ASSUME ListsTyped, HostPageCleared, Hide
  PROVE  evts' = {} /\ lists'[HostList] = <<>>
<1>1. HostList \in Lists /\ lists[HostList] \in Seq(Services)
  BY DEF ListsTyped, Lists
<1>2. Kept(lists[HostList], Services \ evts) = <<>>
  BY <1>1, AllDetached DEF HostPageCleared
<1> QED
  BY <1>1, <1>2 DEF Hide, Detach, ListsTyped

(* A host page without services is in order. *)
LEMMA EmptyHostPage ==
  ASSUME evts = {}, lists[HostList] = <<>>
  PROVE  HostPageCleared
<1>1. DOMAIN <<>> = {}
  OBVIOUS
<1> QED
  BY <1>1 DEF HostPageCleared, Range

(* Away from the host page its list is empty. *)
LEMMA AwayFromHost ==
  ASSUME ListsTyped, HostPageCleared, Page # "#host-cockpit"
  PROVE  evts = {} /\ lists[HostList] = <<>>
<1>1. lists[HostList] \in Seq(Services)
  BY DEF ListsTyped, Lists
<1>2. evts = {} /\ Range(lists[HostList]) = {}
  BY DEF HostPageCleared
<1>3. DOMAIN lists[HostList] = {}
  BY <1>2 DEF Range
<1> QED
  BY <1>1, <1>2, <1>3, NoPlaces

(* leaving any page clears the host page, if it was shown. *)
LEMMA LeaveClears ==
  ASSUME ListsTyped, HostPageCleared, Leave
  PROVE  HostPageCleared'
<1>1. evts' = {} /\ lists'[HostList] = <<>>
  <2>1. CASE Page = "#host-cockpit"
    BY <2>1, HideClears DEF Leave
  <2>2. CASE Page # "#host-cockpit"
    BY <2>2, AwayFromHost DEF Leave, listVars
  <2> QED
    BY <2>1, <2>2
<1>2. DOMAIN <<>> = {}
  OBVIOUS
<1> QED
  BY <1>1, <1>2 DEF HostPageCleared, Range

(* What comes to the list of problems does not come to the list of the host page. *)
LEMMA HostPageApart ==
  ASSUME ListsTyped, HostPageCleared, UNCHANGED <<evts, trail>>,
         lists'[HostList] = lists[HostList]
  PROVE  HostPageCleared'
BY DEF HostPageCleared, Page

(* The host page takes up the services of one host. *)
LEMMA HostPageShown ==
  ASSUME ListsTyped, PagesTyped, HostPageCleared, NEW host, GoToHostDetailedView(host)
  PROVE  HostPageCleared'
<1>1. PICK K : K = {k \in Services : Known(k) /\ HostOf[k] = host}
  OBVIOUS
<1>2. /\ Page = "#main"
      /\ ChangePage("#host-cockpit")
      /\ evts' = evts \cup K
      /\ lists' = [lists EXCEPT ![HostList] = SetToSeq(K) \o @]
  BY <1>1 DEF GoToHostDetailedView
<1>3. evts = {} /\ lists[HostList] = <<>>
  BY <1>2, AwayFromHost
<1>4. PICK s : s = SetToSeq(K)
  OBVIOUS
<1>5. s \in Seq(K) /\ Range(s) = K /\ \A i, j \in DOMAIN s : s[i] = s[j] => i = j
  <2>1. IsFiniteSet(K)
    BY <1>1, ServicesAssumption, FS_Subset
  <2> QED
    BY <1>4, <2>1, SetToSeqLists
<1>6. lists'[HostList] = s
  <2>1. s \o <<>> = s
    BY <1>5
  <2>2. HostList \in Lists
    BY DEF Lists
  <2> QED
    BY <1>2, <1>3, <1>4, <2>1, <2>2 DEF ListsTyped
<1>7. Page' = "#host-cockpit"
  <2>1. "#host-cockpit" \in Pages
    BY DEF Pages
  <2> QED
    BY <1>2, <2>1, LastOfAppend DEF PagesTyped, ChangePage, Page
<1>8. \A j, k \in K : HostOf[j] = HostOf[k]
  BY <1>1
<1> QED
  BY <1>2, <1>3, <1>5, <1>6, <1>7, <1>8 DEF HostPageCleared

(* The list of the host page holds the events the page has to take off again, each
   once, and nothing while the page is not shown: services of two hosts are never
   on it together, whichever way the pages were left. *)
THEOREM HostPageAlwaysCleared == Spec => []HostPageCleared
<1>1. Init => HostPageCleared
  <2> SUFFICES ASSUME Init PROVE HostPageCleared
    OBVIOUS
  <2>1. evts = {} /\ lists[HostList] = <<>>
    BY DEF Init, Lists
  <2> QED
    BY <2>1, EmptyHostPage
<1>2. DetailsInv /\ DomainInv /\ HostPageCleared /\ [Next]_vars => HostPageCleared'
  <2> SUFFICES ASSUME ListsTyped, PagesTyped, HostPageCleared, [Next]_vars
               PROVE  HostPageCleared'
    BY DEF DetailsInv, DomainInv
  <2>1. ASSUME UNCHANGED <<lists, evts, trail>> PROVE HostPageCleared'
    BY <2>1, HostPageApart
  <2>2. ASSUME NEW msg, AddEvent(msg) PROVE HostPageCleared'
    <3>1. UNCHANGED <<evts, trail>>
      BY <2>2 DEF AddEvent, pageVars
    <3>2. lists'[HostList] = lists[HostList]
      <4>1. \/ UNCHANGED listVars
            \/ \E k, code : ListEvent(k, code)
        BY <2>2 DEF AddEvent
      <4>2. UNCHANGED listVars \/ \E k, K : Detach(K, EventsList) \/ Attach(k, EventsList)
        BY <4>1 DEF ListEvent
      <4>3. EventsList # HostList
        BY DEF EventsList, HostList
      <4> QED
        BY <4>2, <4>3 DEF Detach, Attach, ListsTyped, Lists, listVars
    <3> QED
      BY <3>1, <3>2, HostPageApart
  <2>3. ASSUME NEW k \in Services, NEW check \in Checks, Missed(k, check) \/ Live(k, check)
        PROVE  HostPageCleared'
    BY <2>1, <2>2, <2>3 DEF Missed, Live, listVars, pageVars
  <2>4. ASSUME NEW k \in Services, NEW m \in 1..MaxResults, Snapshot(k, m)
        PROVE  HostPageCleared'
    BY <2>2, <2>4 DEF Snapshot
  <2>5. ASSUME NEW host \in Range(HostOf), GoToHostDetailedView(host)
        PROVE  HostPageCleared'
    BY <2>5, HostPageShown
  <2>6. CASE BackFromHostDetailedView
    <3>1. evts' = {} /\ lists'[HostList] = <<>>
      BY <2>6, HideClears DEF BackFromHostDetailedView
    <3>2. DOMAIN <<>> = {}
      OBVIOUS
    <3> QED
      BY <3>1, <3>2 DEF HostPageCleared, Range
  <2>7. ASSUME NEW k \in Services, ShowEvent(k) PROVE HostPageCleared'
    <3>1. UNCHANGED <<evts, trail, listVars>> \/ Leave
      BY <2>7, Zenon DEF ShowEvent
    <3> QED
      BY <2>1, <3>1, LeaveClears DEF listVars
  <2>8. ASSUME NEW graph \in Tabs, Expand(graph) PROVE HostPageCleared'
    BY <2>1, <2>8 DEF Expand, listVars, pageVars
  <2>9. CASE EventBackButton
    <3>1. Page # "#host-cockpit" /\ UNCHANGED <<lists, evts>>
      BY <2>9 DEF EventBackButton, listVars
    <3>2. evts' = {} /\ lists'[HostList] = <<>>
      BY <3>1, AwayFromHost
    <3>3. DOMAIN <<>> = {}
      OBVIOUS
    <3> QED
      BY <3>2, <3>3 DEF HostPageCleared, Range
  <2>10. CASE Back
    BY <2>10, LeaveClears DEF Back
  <2>11. CASE Collapse \/ Resize \/ Refresh \/ UNCHANGED vars
    BY <2>1, <2>11 DEF Collapse, Resize, Refresh, vars, listVars, pageVars
  <2> QED
    BY <2>3, <2>4, <2>5, <2>6, <2>7, <2>8, <2>9, <2>10, <2>11 DEF Next
<1> QED
  BY <1>1, <1>2, DetailsInvAlways, DomainInvAlways, PTL DEF Spec

-----------------------------------------------------------------------------
(* The list of the problems. *)

(* The least and the greatest of a set of numbers, as far as there is one. *)
LEMMA MinIs ==
  ASSUME NEW S \in SUBSET Nat, S # {}
  PROVE  Min(S) \in S /\ \A n \in S : Min(S) <= n
<1>1. \E m \in S : \A n \in S : m <= n
  BY LeastNatural
<1> QED
  BY <1>1 DEF Min

(* A number of the set that none is below is its least. *)
LEMMA MinOnly ==
  ASSUME NEW S \in SUBSET Nat, NEW m \in S, \A n \in S : m <= n
  PROVE  Min(S) = m
<1>1. S # {}
  OBVIOUS
<1>2. PICK min : min = Min(S)
  OBVIOUS
<1>3. min \in S /\ \A n \in S : min <= n
  BY <1>1, <1>2, MinIs
<1>4. min <= m /\ m <= min /\ min \in Nat /\ m \in Nat
  BY <1>3
<1> QED
  BY <1>2, <1>4

(* The messages of k in the log L since its last recovery. *)
ProblemIn(L, k) ==
  {i \in DOMAIN L : L[i][1] = k
     /\ \A j \in i..Len(L) : L[j][1] = k => L[j][2] # OK}

(* What a message does to them: nothing if it is of another service; a recovery
   ends the problem; a problem goes on, or begins with the message. *)
LEMMA ProblemAppend ==
  ASSUME NEW L \in Seq(Services \X States), NEW k \in Services, NEW code \in States
  PROVE  /\ \A j \in Services \ {k} :
              ProblemIn(Append(L, <<k, code>>), j) = ProblemIn(L, j)
         /\ code = OK => ProblemIn(Append(L, <<k, code>>), k) = {}
         /\ code # OK => ProblemIn(Append(L, <<k, code>>), k) =
                           ProblemIn(L, k) \cup {Len(L) + 1}
<1>1. PICK e \in Services \X States : e = <<k, code>>
  OBVIOUS
<1>2. e[1] = k /\ e[2] = code
  BY <1>1
<1>3. PICK M : M = Append(L, e)
  OBVIOUS
<1>4. PICK n \in Nat : n = Len(L)
  OBVIOUS
<1>5. /\ DOMAIN L = 1..n /\ DOMAIN M = 1..(n + 1) /\ Len(M) = n + 1 /\ Len(L) = n
      /\ M[n + 1] = e /\ \A i \in 1..n : M[i] = L[i]
  BY <1>3, <1>4
<1>6. ASSUME NEW j, NEW i \in 1..n
      PROVE  (\A m \in i..(n + 1) : M[m][1] = j => M[m][2] # OK)
             <=> /\ \A m \in i..n : L[m][1] = j => L[m][2] # OK
                 /\ k = j => code # OK
  <2>1. \A m \in i..n : m \in 1..n
    OBVIOUS
  <2>2. \A m : m \in i..(n + 1) <=> (m \in i..n \/ m = n + 1)
    OBVIOUS
  <2>3. \A m \in i..n : M[m] = L[m]
    BY <1>5, <2>1
  <2> QED
    BY <1>2, <1>5, <2>2, <2>3, Zenon
<1>7. ASSUME NEW j
      PROVE  /\ n + 1 \in ProblemIn(M, j) <=> k = j /\ code # OK
             /\ \A i \in 1..n : i \in ProblemIn(M, j) <=>
                  i \in ProblemIn(L, j) /\ (k = j => code # OK)
             /\ ProblemIn(M, j) \subseteq 1..(n + 1)
             /\ ProblemIn(L, j) \subseteq 1..n
  <2>1. n + 1 \in ProblemIn(M, j) <=> k = j /\ code # OK
    <3>1. n + 1 \in DOMAIN M /\ \A m \in (n + 1)..(n + 1) : m = n + 1
      BY <1>5
    <3>2. n + 1 \in (n + 1)..(n + 1)
      OBVIOUS
    <3> QED
      BY <1>2, <1>5, <3>1, <3>2 DEF ProblemIn
  <2>2. ASSUME NEW i \in 1..n
        PROVE  i \in ProblemIn(M, j) <=> i \in ProblemIn(L, j) /\ (k = j => code # OK)
    <3>1. i \in DOMAIN M /\ i \in DOMAIN L /\ M[i] = L[i]
      BY <1>5
    <3>2. (\A m \in i..Len(M) : M[m][1] = j => M[m][2] # OK)
             <=> /\ \A m \in i..Len(L) : L[m][1] = j => L[m][2] # OK
                 /\ k = j => code # OK
      <4>1. i..Len(M) = i..(n + 1) /\ i..Len(L) = i..n
        BY <1>5
      <4> QED
        BY <1>6, <4>1, Zenon
    <3>3. i \in ProblemIn(M, j) <=>
            M[i][1] = j /\ (\A m \in i..Len(M) : M[m][1] = j => M[m][2] # OK)
      BY <3>1, Zenon DEF ProblemIn
    <3>4. i \in ProblemIn(L, j) <=>
            L[i][1] = j /\ (\A m \in i..Len(L) : L[m][1] = j => L[m][2] # OK)
      BY <3>1, Zenon DEF ProblemIn
    <3> QED
      BY <3>1, <3>2, <3>3, <3>4, Zenon
  <2>3. ProblemIn(M, j) \subseteq 1..(n + 1) /\ ProblemIn(L, j) \subseteq 1..n
    BY <1>5 DEF ProblemIn
  <2> QED
    BY <2>1, <2>2, <2>3
<1>8. \A i : i \in 1..(n + 1) <=> (i \in 1..n \/ i = n + 1)
  OBVIOUS
<1>9. n + 1 \notin 1..n
  OBVIOUS
<1>10. ASSUME NEW j \in Services \ {k} PROVE ProblemIn(M, j) = ProblemIn(L, j)
  <2>1. ASSUME NEW i PROVE i \in ProblemIn(M, j) <=> i \in ProblemIn(L, j)
    BY <1>7, <1>8, <1>9
  <2> QED
    BY <2>1
<1>11. ASSUME code = OK PROVE ProblemIn(M, k) = {}
  BY <1>7, <1>8, <1>11
<1>12. ASSUME code # OK PROVE ProblemIn(M, k) = ProblemIn(L, k) \cup {n + 1}
  <2>1. ASSUME NEW i PROVE i \in ProblemIn(M, k) <=> i \in ProblemIn(L, k) \cup {n + 1}
    BY <1>7, <1>8, <1>9, <1>12
  <2> QED
    BY <2>1
<1> QED
  BY <1>1, <1>3, <1>4, <1>10, <1>11, <1>12

(* ProblemsListed, of any log and any list. *)
ListShows(L, list) ==
  /\ Range(list) = {k \in Services : ProblemIn(L, k) # {}}
  /\ \A i, j \in DOMAIN list :
       i < j => Min(ProblemIn(L, list[i])) > Min(ProblemIn(L, list[j]))

(* A problem is a set of places of the log. *)
LEMMA ProblemInTyped ==
  ASSUME NEW L \in Seq(Services \X States), NEW k
  PROVE  ProblemIn(L, k) \subseteq 1..Len(L) /\ ProblemIn(L, k) \in SUBSET Nat
BY DEF ProblemIn

(* A recovery takes the event off the list. *)
LEMMA ListDetached ==
  ASSUME NEW L \in Seq(Services \X States), NEW list \in Seq(Services), NEW k \in Services,
         ListShows(L, list)
  PROVE  ListShows(Append(L, <<k, OK>>), Kept(list, Services \ {k}))
<1>1. PICK M : M = Append(L, <<k, OK>>)
  OBVIOUS
<1>2. OK \in States
  BY DEF OK, UNKNOWN, States
<1>3. /\ \A j \in Services \ {k} : ProblemIn(M, j) = ProblemIn(L, j)
      /\ ProblemIn(M, k) = {}
  BY <1>1, <1>2, ProblemAppend
<1>4. PICK S : S = Services \ {k}
  OBVIOUS
<1>5. PICK r : r = Kept(list, S)
  OBVIOUS
<1>6. r \in Seq(Services) /\ WasThere(list, S, r) /\ AllStays(list, S, r)
      /\ OrderStays(list, r)
  BY <1>5, KeptStays
<1>7. Range(r) = {j \in Services : ProblemIn(M, j) # {}}
  <2>1. ASSUME NEW j \in Services, ProblemIn(M, j) # {} PROVE j \in Range(r)
    <3>1. j \in S /\ ProblemIn(L, j) # {}
      BY <1>3, <1>4, <2>1
    <3>2. PICK i \in DOMAIN list : list[i] = j
      BY <3>1 DEF ListShows, Range
    <3>3. \E h \in DOMAIN r : r[h] = j
      BY <1>6, <3>1, <3>2 DEF AllStays
    <3> QED
      BY <3>3 DEF Range
  <2>2. ASSUME NEW h \in DOMAIN r PROVE r[h] \in Services /\ ProblemIn(M, r[h]) # {}
    <3>1. r[h] \in S
      BY <1>6 DEF WasThere
    <3>2. PICK i \in DOMAIN list : r[h] = list[i]
      BY <1>6 DEF WasThere
    <3>3. ProblemIn(L, r[h]) # {}
      BY <3>2 DEF ListShows, Range
    <3> QED
      BY <1>3, <1>4, <3>1, <3>3
  <2> QED
    BY <2>1, <2>2 DEF Range
<1>8. ASSUME NEW g \in DOMAIN r, NEW h \in DOMAIN r, g < h
      PROVE  Min(ProblemIn(M, r[g])) > Min(ProblemIn(M, r[h]))
  <2>1. PICK i \in DOMAIN list, j \in DOMAIN list : i < j /\ r[g] = list[i] /\ r[h] = list[j]
    BY <1>6, <1>8 DEF OrderStays
  <2>2. Min(ProblemIn(L, list[i])) > Min(ProblemIn(L, list[j]))
    BY <2>1 DEF ListShows
  <2>3. r[g] \in S /\ r[h] \in S
    BY <1>6 DEF WasThere
  <2>4. ProblemIn(M, r[g]) = ProblemIn(L, list[i]) /\ ProblemIn(M, r[h]) = ProblemIn(L, list[j])
    BY <1>3, <1>4, <2>1, <2>3
  <2> QED
    BY <2>2, <2>4
<1>9. ListShows(M, r)
  BY <1>7, <1>8 DEF ListShows
<1> QED
  BY <1>1, <1>4, <1>5, <1>9

(* The time a problem began does not change while it goes on. *)
Goes(L, M, k) ==
  /\ \A j \in Services : ProblemIn(L, j) # {} =>
       ProblemIn(M, j) # {} /\ Min(ProblemIn(M, j)) = Min(ProblemIn(L, j))
  /\ \A j \in Services : ProblemIn(M, j) # {} => ProblemIn(L, j) # {} \/ j = k
  /\ ProblemIn(L, k) = {} =>
       ProblemIn(M, k) # {} /\ Min(ProblemIn(M, k)) = Len(L) + 1

(* A message that is no recovery goes on with the problem there is, or begins one. *)
LEMMA BeganBefore ==
  ASSUME NEW L \in Seq(Services \X States), NEW k \in Services, NEW code \in States \ {OK},
         NEW M, M = Append(L, <<k, code>>)
  PROVE  Goes(L, M, k)
<1>2. PICK n \in Nat : n = Len(L)
  OBVIOUS
<1>3. /\ \A j \in Services \ {k} : ProblemIn(M, j) = ProblemIn(L, j)
      /\ ProblemIn(M, k) = ProblemIn(L, k) \cup {n + 1}
  BY <1>2, ProblemAppend
<1>4. \A j \in Services : ProblemIn(L, j) \subseteq 1..n
  BY <1>2, ProblemInTyped
<1>5. ASSUME ProblemIn(L, k) # {} PROVE Min(ProblemIn(M, k)) = Min(ProblemIn(L, k))
  <2>1. PICK P : P = ProblemIn(L, k)
    OBVIOUS
  <2>2. P \in SUBSET Nat /\ P # {} /\ P \subseteq 1..n
    BY <1>4, <1>5, <2>1
  <2>3. PICK m : m = Min(P)
    OBVIOUS
  <2>4. m \in P /\ \A i \in P : m <= i
    BY <2>2, <2>3, MinIs
  <2>5. PICK Q : Q = P \cup {n + 1}
    OBVIOUS
  <2>6. Q \in SUBSET Nat /\ m \in Q /\ \A i \in Q : m <= i
    BY <2>2, <2>4, <2>5
  <2>7. Min(Q) = m
    BY <2>6, MinOnly
  <2> QED
    BY <1>3, <2>1, <2>3, <2>5, <2>7
<1>6. ASSUME ProblemIn(L, k) = {} PROVE Min(ProblemIn(M, k)) = n + 1
  <2>1. PICK Q : Q = {n + 1}
    OBVIOUS
  <2>2. Q \in SUBSET Nat /\ n + 1 \in Q /\ \A i \in Q : n + 1 <= i
    BY <2>1
  <2>3. Min(Q) = n + 1
    BY <2>2, MinOnly
  <2> QED
    BY <1>3, <1>6, <2>1, <2>3
<1>7. n + 1 \in ProblemIn(M, k)
  BY <1>3
<1>8. \A j \in Services : ProblemIn(L, j) # {} =>
        ProblemIn(M, j) # {} /\ Min(ProblemIn(M, j)) = Min(ProblemIn(L, j))
  BY <1>3, <1>5, <1>7
<1>9. \A j \in Services : ProblemIn(M, j) # {} => ProblemIn(L, j) # {} \/ j = k
  BY <1>3
<1> QED
  BY <1>2, <1>6, <1>7, <1>8, <1>9 DEF Goes

(* A problem that goes on leaves the list as it is. *)
LEMMA ListSame ==
  ASSUME NEW L \in Seq(Services \X States), NEW list \in Seq(Services), NEW k \in Services,
         NEW code \in States \ {OK}, ListShows(L, list), ProblemIn(L, k) # {}
  PROVE  ListShows(Append(L, <<k, code>>), list)
<1>1. PICK M : M = Append(L, <<k, code>>)
  OBVIOUS
<1>2. /\ \A j \in Services : ProblemIn(L, j) # {} =>
           ProblemIn(M, j) # {} /\ Min(ProblemIn(M, j)) = Min(ProblemIn(L, j))
      /\ \A j \in Services : ProblemIn(M, j) # {} => ProblemIn(L, j) # {} \/ j = k
  <2>1. Goes(L, M, k)
    BY <1>1, BeganBefore, Zenon
  <2> QED
    BY <2>1 DEF Goes
<1>3. \A j \in Services : ProblemIn(M, j) # {} <=> ProblemIn(L, j) # {}
  BY <1>2
<1>4. Range(list) = {j \in Services : ProblemIn(M, j) # {}}
  BY <1>3 DEF ListShows
<1>5. ASSUME NEW i \in DOMAIN list PROVE list[i] \in Services /\ ProblemIn(L, list[i]) # {}
  BY DEF ListShows, Range
<1>6. ASSUME NEW i \in DOMAIN list, NEW j \in DOMAIN list, i < j
      PROVE  Min(ProblemIn(M, list[i])) > Min(ProblemIn(M, list[j]))
  <2>1. Min(ProblemIn(L, list[i])) > Min(ProblemIn(L, list[j]))
    BY <1>6 DEF ListShows
  <2>2. Min(ProblemIn(M, list[i])) = Min(ProblemIn(L, list[i]))
        /\ Min(ProblemIn(M, list[j])) = Min(ProblemIn(L, list[j]))
    BY <1>2, <1>5
  <2> QED
    BY <2>1, <2>2
<1> QED
  BY <1>1, <1>4, <1>6 DEF ListShows

(* A problem that begins comes to the head of the list. *)
LEMMA ListAttached ==
  ASSUME NEW L \in Seq(Services \X States), NEW list \in Seq(Services), NEW k \in Services,
         NEW code \in States \ {OK}, ListShows(L, list), ProblemIn(L, k) = {}
  PROVE  ListShows(Append(L, <<k, code>>), <<k>> \o list)
<1>1. PICK M : M = Append(L, <<k, code>>)
  OBVIOUS
<1>2. PICK n \in Nat : n = Len(L)
  OBVIOUS
<1>3. /\ \A j \in Services : ProblemIn(L, j) # {} =>
           ProblemIn(M, j) # {} /\ Min(ProblemIn(M, j)) = Min(ProblemIn(L, j))
      /\ \A j \in Services : ProblemIn(M, j) # {} => ProblemIn(L, j) # {} \/ j = k
      /\ ProblemIn(M, k) # {} /\ Min(ProblemIn(M, k)) = n + 1
  <2>1. Goes(L, M, k)
    BY <1>1, BeganBefore, Zenon
  <2> QED
    BY <1>2, <2>1 DEF Goes
<1>4. PICK r : r = <<k>> \o list
  OBVIOUS
<1>5. /\ DOMAIN list = 1..Len(list) /\ DOMAIN r = 1..(Len(list) + 1) /\ Len(list) \in Nat
      /\ r[1] = k /\ \A i \in 2..(Len(list) + 1) : r[i] = list[i - 1]
      /\ \A i \in DOMAIN list : list[i] \in Services
  BY <1>4
<1>6. \A i \in DOMAIN r : i = 1 \/ (i - 1 \in DOMAIN list /\ r[i] = list[i - 1])
  BY <1>5
<1>7. \A i \in DOMAIN list : i + 1 \in DOMAIN r /\ r[i + 1] = list[i]
  <2>1. ASSUME NEW i \in DOMAIN list PROVE i + 1 \in DOMAIN r /\ r[i + 1] = list[i]
    <3>1. i + 1 \in 2..(Len(list) + 1) /\ (i + 1) - 1 = i
      BY <1>5
    <3> QED
      BY <1>5, <3>1
  <2> QED
    BY <2>1
<1>8. \A i \in DOMAIN list : ProblemIn(L, list[i]) # {}
  BY <1>5 DEF ListShows, Range
<1>9. Range(r) = {j \in Services : ProblemIn(M, j) # {}}
  <2>1. ASSUME NEW j \in Services, ProblemIn(M, j) # {} PROVE \E i \in DOMAIN r : r[i] = j
    <3>1. CASE j = k
      BY <1>5, <3>1
    <3>2. CASE j # k
      <4>1. PICK i \in DOMAIN list : list[i] = j
        BY <1>3, <2>1, <3>2 DEF ListShows, Range
      <4> QED
        BY <1>7, <4>1
    <3> QED
      BY <3>1, <3>2
  <2>2. ASSUME NEW i \in DOMAIN r PROVE r[i] \in Services /\ ProblemIn(M, r[i]) # {}
    BY <1>3, <1>5, <1>6, <1>8
  <2> QED
    BY <2>1, <2>2 DEF Range
<1>10. ASSUME NEW i \in DOMAIN r, NEW j \in DOMAIN r, i < j
       PROVE  Min(ProblemIn(M, r[i])) > Min(ProblemIn(M, r[j]))
  <2>1. j - 1 \in DOMAIN list /\ r[j] = list[j - 1]
    BY <1>5, <1>10
  <2>2. PICK f : f = list[j - 1]
    OBVIOUS
  <2>3. f \in Services /\ ProblemIn(L, f) # {} /\ Min(ProblemIn(M, f)) = Min(ProblemIn(L, f))
    BY <1>3, <1>5, <1>8, <2>1, <2>2
  <2>4. CASE i = 1
    <3>1. Min(ProblemIn(L, f)) \in 1..n
      <4>1. ProblemIn(L, f) \in SUBSET Nat /\ ProblemIn(L, f) \subseteq 1..n
        BY <1>2, ProblemInTyped
      <4> QED
        BY <2>3, <4>1, MinIs
    <3>2. n + 1 > Min(ProblemIn(L, f))
      BY <3>1
    <3> QED
      BY <1>3, <1>5, <2>1, <2>2, <2>3, <2>4, <3>2
  <2>5. CASE i # 1
    <3>1. i - 1 \in DOMAIN list /\ r[i] = list[i - 1] /\ i - 1 < j - 1
      BY <1>5, <1>10, <2>5
    <3>2. PICK e : e = list[i - 1]
      OBVIOUS
    <3>3. Min(ProblemIn(M, e)) = Min(ProblemIn(L, e))
      BY <1>3, <1>5, <1>8, <3>1, <3>2
    <3>4. Min(ProblemIn(L, e)) > Min(ProblemIn(L, f))
      BY <2>1, <2>2, <3>1, <3>2 DEF ListShows
    <3> QED
      BY <2>1, <2>2, <2>3, <3>1, <3>2, <3>3, <3>4
  <2> QED
    BY <2>4, <2>5
<1> QED
  BY <1>1, <1>4, <1>9, <1>10 DEF ListShows

(* An event knows that it is on the list of problems. *)
AttachedWhereListed ==
  \A k \in Services : EventsList \in attachedTo[k] <=> k \in Range(lists[EventsList])

ListInv == ProblemsListed /\ AttachedWhereListed

(* The property of the list, said of a log and a list. *)
LEMMA ListShowsIs == ProblemsListed <=> ListShows(log, lists[EventsList])
BY DEF ProblemsListed, ListShows, ProblemOf, ProblemIn

(* The same after a step. *)
LEMMA ListShowsIsThen ==
  ASSUME NEW L, NEW list, log' = L, lists'[EventsList] = list, ListShows(L, list)
  PROVE  ProblemsListed'
BY DEF ProblemsListed, ListShows, ProblemOf, ProblemIn

(* The end of addEvent() keeps the list in step with the messages. *)
LEMMA ListEventKeeps ==
  ASSUME ListsTyped, LogTyped, ListInv, NEW k \in Services, NEW code \in States,
         log' = Append(log, <<k, code>>), ListEvent(k, code)
  PROVE  ListInv'
<1>1. PICK L : L = log
  OBVIOUS
<1>2. PICK list : list = lists[EventsList]
  OBVIOUS
<1>3. EventsList \in Lists
  BY DEF Lists
<1>4. L \in Seq(Services \X States) /\ list \in Seq(Services) /\ ListShows(L, list)
  BY <1>1, <1>2, <1>3, ListShowsIs DEF ListsTyped, LogTyped, ListInv
<1>5. \A j \in Services : EventsList \in attachedTo[j] <=> j \in Range(list)
  BY <1>2 DEF ListInv, AttachedWhereListed
<1>6. Range(list) = {j \in Services : ProblemIn(L, j) # {}}
  BY <1>4 DEF ListShows
<1>7. CASE code = OK /\ Detach({k}, EventsList)
  <2>1. PICK S : S = Services \ {k}
    OBVIOUS
  <2>2. PICK r : r = Kept(list, S)
    OBVIOUS
  <2>3. /\ lists' = [lists EXCEPT ![EventsList] = r]
        /\ attachedTo' = [j \in Services |->
             IF j \in {k} THEN attachedTo[j] \ {EventsList} ELSE attachedTo[j]]
    BY <1>2, <1>7, <2>1, <2>2 DEF Detach
  <2>4. lists'[EventsList] = r
    BY <1>3, <2>3 DEF ListsTyped
  <2>5. ListShows(Append(L, <<k, OK>>), r)
    BY <1>4, <2>1, <2>2, ListDetached
  <2>6. ProblemsListed'
    BY <1>1, <1>7, <2>4, <2>5, ListShowsIsThen
  <2>7. WasThere(list, S, r) /\ AllStays(list, S, r)
    BY <1>4, <2>2, KeptStays
  <2>8. ASSUME NEW j \in Services
        PROVE  EventsList \in attachedTo'[j] <=> j \in Range(lists'[EventsList])
    <3>1. j \in Range(r) <=> j \in Range(list) /\ j # k
      <4>1. ASSUME j \in Range(r) PROVE j \in Range(list) /\ j # k
        <5>1. PICK h \in DOMAIN r : r[h] = j
          BY <4>1 DEF Range
        <5>2. j \in S /\ \E i \in DOMAIN list : j = list[i]
          BY <2>7, <5>1 DEF WasThere
        <5> QED
          BY <2>1, <5>2 DEF Range
      <4>2. ASSUME j \in Range(list), j # k PROVE j \in Range(r)
        <5>1. PICK i \in DOMAIN list : list[i] = j
          BY <4>2 DEF Range
        <5>2. \E h \in DOMAIN r : r[h] = j
          BY <2>1, <2>7, <4>2, <5>1 DEF AllStays
        <5> QED
          BY <5>2 DEF Range
      <4> QED
        BY <4>1, <4>2
    <3>2. EventsList \in attachedTo'[j] <=> EventsList \in attachedTo[j] /\ j # k
      BY <2>3
    <3> QED
      BY <1>5, <2>4, <3>1, <3>2
  <2> QED
    BY <2>6, <2>8 DEF ListInv, AttachedWhereListed
<1>8. CASE code # OK /\ EventsList \in attachedTo[k] /\ UNCHANGED listVars
  <2>1. ProblemIn(L, k) # {}
    BY <1>5, <1>6, <1>8
  <2>2. ListShows(Append(L, <<k, code>>), list)
    BY <1>4, <1>8, <2>1, ListSame
  <2>3. ProblemsListed'
    BY <1>1, <1>2, <1>8, <2>2, ListShowsIsThen DEF listVars
  <2> QED
    BY <1>8, <2>3 DEF ListInv, AttachedWhereListed, listVars
<1>9. CASE code # OK /\ EventsList \notin attachedTo[k] /\ Attach(k, EventsList)
  <2>1. ProblemIn(L, k) = {}
    BY <1>5, <1>6, <1>9
  <2>2. PICK r : r = <<k>> \o list
    OBVIOUS
  <2>3. ListShows(Append(L, <<k, code>>), r)
    BY <1>4, <1>9, <2>1, <2>2, ListAttached
  <2>4. /\ lists' = [lists EXCEPT ![EventsList] = r]
        /\ attachedTo' = [attachedTo EXCEPT ![k] = @ \cup {EventsList}]
    BY <1>2, <1>9, <2>2 DEF Attach
  <2>5. lists'[EventsList] = r
    BY <1>3, <2>4 DEF ListsTyped
  <2>6. ProblemsListed'
    BY <1>1, <2>3, <2>5, ListShowsIsThen
  <2>7. Range(r) = Range(list) \cup {k}
    <3>1. /\ DOMAIN list = 1..Len(list) /\ DOMAIN r = 1..(Len(list) + 1)
          /\ Len(list) \in Nat /\ r[1] = k
          /\ \A i \in 2..(Len(list) + 1) : r[i] = list[i - 1]
      BY <1>4, <2>2
    <3>2. ASSUME NEW i \in DOMAIN list PROVE \E h \in DOMAIN r : r[h] = list[i]
      <4>1. i + 1 \in DOMAIN r /\ i + 1 \in 2..(Len(list) + 1) /\ (i + 1) - 1 = i
        BY <3>1
      <4> QED
        BY <3>1, <4>1
    <3>3. ASSUME NEW h \in DOMAIN r PROVE r[h] = k \/ \E i \in DOMAIN list : r[h] = list[i]
      <4>1. CASE h = 1
        BY <3>1, <4>1
      <4>2. CASE h # 1
        <5>1. h - 1 \in DOMAIN list /\ r[h] = list[h - 1]
          BY <3>1, <4>2
        <5> QED
          BY <5>1
      <4> QED
        BY <4>1, <4>2
    <3>4. \E h \in DOMAIN r : r[h] = k
      <4>1. 1 \in DOMAIN r
        BY <3>1
      <4> QED
        BY <3>1, <4>1
    <3> QED
      BY <3>2, <3>3, <3>4 DEF Range
  <2>8. \A j \in Services :
          EventsList \in attachedTo'[j] <=> EventsList \in attachedTo[j] \/ j = k
    BY <2>4 DEF ListsTyped
  <2> QED
    BY <1>5, <2>5, <2>6, <2>7, <2>8 DEF ListInv, AttachedWhereListed
<1> QED
  BY <1>7, <1>8, <1>9 DEF ListEvent

(* The host page has a list of its own. *)
LEMMA ListApart ==
  ASSUME ListInv, log' = log, lists'[EventsList] = lists[EventsList],
         \A k \in Services : EventsList \in attachedTo'[k] <=> EventsList \in attachedTo[k]
  PROVE  ListInv'
BY DEF ListInv, ProblemsListed, ProblemOf, AttachedWhereListed

(* hide() of the host page does not touch the list of the problems. *)
LEMMA HideApart ==
  ASSUME ListsTyped, ListInv, log' = log, Leave \/ Hide
  PROVE  ListInv'
<1>1. UNCHANGED listVars \/ Detach(evts, HostList)
  BY DEF Leave, Hide
<1>2. EventsList # HostList /\ EventsList \in Lists
  BY DEF EventsList, HostList, Lists
<1>3. lists'[EventsList] = lists[EventsList]
  BY <1>1, <1>2 DEF Detach, ListsTyped, listVars
<1>4. \A k \in Services : EventsList \in attachedTo'[k] <=> EventsList \in attachedTo[k]
  BY <1>1, <1>2 DEF Detach, ListsTyped, listVars
<1> QED
  BY <1>3, <1>4, ListApart

(* The list of the problems, and the note each event keeps of being on it, at every
   time. *)
THEOREM ListInvAlways == Spec => []ListInv
<1>1. Init => ListInv
  <2> SUFFICES ASSUME Init PROVE ListInv
    OBVIOUS
  <2>1. lists[EventsList] = <<>> /\ log = <<>> /\ DOMAIN <<>> = {}
    BY DEF Init, Lists
  <2>2. \A k \in Services : ProblemOf(k) = {}
    BY <2>1 DEF ProblemOf
  <2>3. Range(lists[EventsList]) = {}
    BY <2>1 DEF Range
  <2>4. ProblemsListed
    BY <2>1, <2>2, <2>3 DEF ProblemsListed
  <2>5. AttachedWhereListed
    BY <2>3 DEF Init, AttachedWhereListed
  <2> QED
    BY <2>4, <2>5 DEF ListInv
<1>2. DetailsInv /\ DomainInv /\ ListInv /\ [Next]_vars => ListInv'
  <2> SUFFICES ASSUME ListsTyped, LogTyped, ListInv, [Next]_vars PROVE ListInv'
    BY DEF DetailsInv, DomainInv
  <2>1. ASSUME UNCHANGED <<log, listVars>> PROVE ListInv'
    BY <2>1, ListApart DEF listVars
  <2>2. ASSUME NEW msg, msg.service \in Services, AddEvent(msg) PROVE ListInv'
    <3>1. PICK k \in Services : k = msg.service
      BY <2>2
    <3>2. PICK code : code = Normalised(msg.result.return_code)
      OBVIOUS
    <3>3. code \in States
      BY <3>2 DEF Normalised, States, OK, UNKNOWN
    <3>4. \/ log' = Append(log, <<k, code>>) /\ ListEvent(k, code)
          \/ UNCHANGED <<log, listVars>>
      BY <2>2, <3>1, <3>2 DEF AddEvent
    <3> QED
      BY <2>1, <3>3, <3>4, ListEventKeeps
  <2>3. ASSUME NEW k \in Services, NEW check \in Checks, Missed(k, check) \/ Live(k, check)
        PROVE  ListInv'
    <3>1. PICK msg : msg = [service |-> k, result |-> Last(results'[k]), historicData |-> <<>>]
      OBVIOUS
    <3>2. UNCHANGED <<log, listVars>> \/ AddEvent(msg)
      BY <2>3, <3>1 DEF Missed, Live
    <3>3. msg.service \in Services
      BY <3>1
    <3> QED
      BY <2>1, <2>2, <3>2, <3>3
  <2>4. ASSUME NEW k \in Services, NEW m \in 1..MaxResults, Snapshot(k, m) PROVE ListInv'
    <3>1. PICK msg : msg = [service |-> k, result |-> Last(results[k]),
               historicData |-> Capped(SubSeq(results[k], m + 1, Len(results[k])))]
      OBVIOUS
    <3>2. AddEvent(msg) /\ msg.service \in Services
      BY <2>4, <3>1 DEF Snapshot
    <3> QED
      BY <2>2, <3>2
  <2>5. ASSUME NEW host \in Range(HostOf), GoToHostDetailedView(host) PROVE ListInv'
    <3>1. PICK K : K = {k \in Services : Known(k) /\ HostOf[k] = host}
      OBVIOUS
    <3>2. PICK new : new = SetToSeq(K) \o lists[HostList]
      OBVIOUS
    <3>3. /\ lists' = [lists EXCEPT ![HostList] = new]
          /\ attachedTo' = [k \in Services |->
               IF k \in K THEN attachedTo[k] \cup {HostList} ELSE attachedTo[k]]
          /\ log' = log
      BY <2>5, <3>1, <3>2 DEF GoToHostDetailedView
    <3>4. EventsList # HostList /\ EventsList \in Lists
      BY DEF EventsList, HostList, Lists
    <3>5. lists'[EventsList] = lists[EventsList]
      BY <3>3, <3>4 DEF ListsTyped
    <3>6. \A k \in Services : EventsList \in attachedTo'[k] <=> EventsList \in attachedTo[k]
      BY <3>3, <3>4
    <3> QED
      BY <3>3, <3>5, <3>6, ListApart
  <2>6. CASE BackFromHostDetailedView
    BY <2>6, HideApart DEF BackFromHostDetailedView
  <2>7. ASSUME NEW k \in Services, ShowEvent(k) PROVE ListInv'
    <3>1. log' = log /\ (UNCHANGED listVars \/ Leave)
      BY <2>7, Zenon DEF ShowEvent
    <3> QED
      BY <2>1, <3>1, HideApart
  <2>8. CASE Back
    BY <2>8, HideApart DEF Back
  <2>9. ASSUME UNCHANGED vars \/ Collapse \/ Resize \/ Refresh \/ EventBackButton
               \/ \E graph \in Tabs : Expand(graph)
        PROVE  ListInv'
    BY <2>1, <2>9 DEF vars, Collapse, Resize, Refresh, EventBackButton, Expand
  <2> QED
    BY <2>3, <2>4, <2>5, <2>6, <2>7, <2>8, <2>9 DEF Next
<1> QED
  BY <1>1, <1>2, DetailsInvAlways, DomainInvAlways, PTL DEF Spec

(* What an event shows and the note it keeps of being on the list agree, but after an
   error. *)
NotedAsShown ==
  \A k \in Services \ unfinished : Known(k) =>
    (EventsList \in attachedTo[k] <=> servicesLastStates[k].return_code # OK)

(* addEvent() brings the note in step with the event, or leaves the event as one whose
   message has not been finished. *)
LEMMA AddEventNotes ==
  ASSUME DataTyped, ListsTyped, NotedAsShown, NEW msg, msg.service \in Services,
         AddEvent(msg)
  PROVE  NotedAsShown'
<1>1. PICK k \in Services : k = msg.service
  OBVIOUS
<1>2. PICK code : code = Normalised(msg.result.return_code)
  OBVIOUS
<1>3. PICK event : event = Updated(HistoricData(k), msg)
  OBVIOUS
<1>4. /\ servicesLastStates' = [servicesLastStates EXCEPT ![k] = event]
      /\ \/ ListEvent(k, code) /\ unfinished' = unfinished \ {k}
         \/ UNCHANGED listVars /\ unfinished' = unfinished \cup {k}
  BY <1>1, <1>2, <1>3 DEF AddEvent
<1>5. event.return_code = code
  BY <1>1, <1>2, <1>3 DEF Updated
<1>6. /\ servicesLastStates'[k] = event
      /\ \A j \in Services \ {k} : servicesLastStates'[j] = servicesLastStates[j]
  BY <1>4 DEF DataTyped
<1>7. CASE ListEvent(k, code) /\ unfinished' = unfinished \ {k}
  <2>1. /\ EventsList \in attachedTo'[k] <=> code # OK
        /\ \A j \in Services \ {k} :
             EventsList \in attachedTo'[j] <=> EventsList \in attachedTo[j]
    BY <1>7 DEF ListEvent, Attach, Detach, ListsTyped, listVars
  <2> QED
    BY <1>5, <1>6, <1>7, <2>1 DEF NotedAsShown, Known
<1>8. CASE UNCHANGED listVars /\ unfinished' = unfinished \cup {k}
  BY <1>6, <1>8 DEF NotedAsShown, Known, listVars
<1> QED
  BY <1>4, <1>7, <1>8

(* The host page has a list of its own, so the note of the list of problems stays. *)
LEMMA NotesApart ==
  ASSUME ListsTyped, NotedAsShown, UNCHANGED eventVars,
         \A k \in Services : EventsList \in attachedTo'[k] <=> EventsList \in attachedTo[k]
  PROVE  NotedAsShown'
BY DEF NotedAsShown, Known, eventVars

LEMMA HideNotes ==
  ASSUME ListsTyped, NotedAsShown, UNCHANGED eventVars, Leave \/ Hide
  PROVE  NotedAsShown'
<1>1. UNCHANGED listVars \/ Detach(evts, HostList)
  BY DEF Leave, Hide
<1>2. EventsList # HostList
  BY DEF EventsList, HostList
<1>3. \A k \in Services : EventsList \in attachedTo'[k] <=> EventsList \in attachedTo[k]
  BY <1>1, <1>2 DEF Detach, ListsTyped, listVars
<1> QED
  BY <1>3, NotesApart

THEOREM NotedAlwaysAsShown == Spec => []NotedAsShown
<1>1. Init => NotedAsShown
  BY DEF Init, NotedAsShown, Known
<1>2. DetailsInv /\ DomainInv /\ NotedAsShown /\ [Next]_vars => NotedAsShown'
  <2> SUFFICES ASSUME DataTyped, ListsTyped, NotedAsShown, [Next]_vars
               PROVE  NotedAsShown'
    BY DEF DetailsInv, DomainInv
  <2>1. ASSUME UNCHANGED <<servicesLastStates, unfinished, listVars>> PROVE NotedAsShown'
    BY <2>1 DEF NotedAsShown, Known, listVars
  <2>2. ASSUME NEW k \in Services, NEW check \in Checks, Missed(k, check) \/ Live(k, check)
        PROVE  NotedAsShown'
    <3>1. PICK msg : msg = [service |-> k, result |-> Last(results'[k]), historicData |-> <<>>]
      OBVIOUS
    <3>2. UNCHANGED <<servicesLastStates, unfinished, listVars>> \/ AddEvent(msg)
      BY <2>2, <3>1 DEF Missed, Live
    <3>3. msg.service \in Services
      BY <3>1
    <3> QED
      BY <2>1, <3>2, <3>3, AddEventNotes
  <2>3. ASSUME NEW k \in Services, NEW m \in 1..MaxResults, Snapshot(k, m)
        PROVE  NotedAsShown'
    <3>1. PICK msg : msg = [service |-> k, result |-> Last(results[k]),
               historicData |-> Capped(SubSeq(results[k], m + 1, Len(results[k])))]
      OBVIOUS
    <3>2. AddEvent(msg) /\ msg.service \in Services
      BY <2>3, <3>1 DEF Snapshot
    <3> QED
      BY <3>2, AddEventNotes
  <2>4. ASSUME NEW host \in Range(HostOf), GoToHostDetailedView(host) PROVE NotedAsShown'
    <3>1. PICK K : K = {k \in Services : Known(k) /\ HostOf[k] = host}
      OBVIOUS
    <3>2. attachedTo' = [k \in Services |->
            IF k \in K THEN attachedTo[k] \cup {HostList} ELSE attachedTo[k]]
          /\ UNCHANGED eventVars
      BY <2>4, <3>1 DEF GoToHostDetailedView
    <3>3. EventsList # HostList
      BY DEF EventsList, HostList
    <3>4. \A k \in Services : EventsList \in attachedTo'[k] <=> EventsList \in attachedTo[k]
      BY <3>2, <3>3
    <3> QED
      BY <3>2, <3>4, NotesApart
  <2>5. CASE BackFromHostDetailedView
    BY <2>5, HideNotes DEF BackFromHostDetailedView
  <2>6. ASSUME NEW k \in Services, ShowEvent(k) PROVE NotedAsShown'
    <3>1. UNCHANGED eventVars /\ (UNCHANGED listVars \/ Leave)
      BY <2>6, Zenon DEF ShowEvent
    <3> QED
      BY <2>1, <3>1, HideNotes DEF eventVars
  <2>7. CASE Back
    BY <2>7, HideNotes DEF Back
  <2>8. ASSUME UNCHANGED vars \/ Collapse \/ Resize \/ Refresh \/ EventBackButton
               \/ \E graph \in Tabs : Expand(graph)
        PROVE  NotedAsShown'
    BY <2>1, <2>8 DEF vars, eventVars, Collapse, Resize, Refresh, EventBackButton, Expand
  <2> QED
    BY <2>2, <2>3, <2>4, <2>5, <2>6, <2>7, <2>8 DEF Next
<1> QED
  BY <1>1, <1>2, DetailsInvAlways, DomainInvAlways, PTL DEF Spec

(* #eventslist is the problems there are, each service once, the problem that began
   last first, whatever messages come twice, are missed or come while other pages
   are shown; it is behind what an event shows only after an error of a chart. *)
THEOREM ListAlwaysShowsProblems == Spec => []ListShowsProblems
<1>1. ListInv /\ NotedAsShown => ListShowsProblems
  BY DEF ListInv, AttachedWhereListed, NotedAsShown, ListedAsShown, ListShowsProblems
<1> QED
  BY <1>1, ListInvAlways, NotedAlwaysAsShown, PTL

-----------------------------------------------------------------------------
(* The counters and the columns of the main page. *)

(* A number of the set that none is above is its greatest. *)
LEMMA MaxOnly ==
  ASSUME NEW S \in SUBSET Int, NEW m \in S, \A n \in S : n <= m
  PROVE  Max(S) = m
<1>1. PICK max : max = Max(S)
  OBVIOUS
<1>2. \E l \in S : \A n \in S : l >= n
  OBVIOUS
<1>3. max \in S /\ \A n \in S : max >= n
  BY <1>1, <1>2 DEF Max
<1>4. max >= m /\ m >= max /\ max \in Int /\ m \in Int
  BY <1>3
<1> QED
  BY <1>1, <1>4

(* How often c is in s. *)
Tally(s, c) == Cardinality({i \in DOMAIN s : s[i] = c})

(* Nothing is nowhere. *)
LEMMA TallyEmpty ==
  ASSUME NEW c
  PROVE  Tally(<<>>, c) = 0
<1>1. {i \in DOMAIN <<>> : <<>>[i] = c} = {}
  OBVIOUS
<1> QED
  BY <1>1, FS_EmptySet DEF Tally

(* An entry more counts once, under its code. *)
LEMMA TallyAppend ==
  ASSUME NEW T, NEW s \in Seq(T), NEW e \in T, NEW c
  PROVE  /\ Tally(s, c) \in Nat
         /\ Tally(Append(s, e), c) = Tally(s, c) + (IF e = c THEN 1 ELSE 0)
<1>1. PICK n \in Nat : n = Len(s)
  OBVIOUS
<1>2. PICK t : t = Append(s, e)
  OBVIOUS
<1>3. /\ DOMAIN s = 1..n /\ DOMAIN t = 1..(n + 1) /\ t[n + 1] = e
      /\ \A i \in 1..n : t[i] = s[i]
  BY <1>1, <1>2
<1>4. PICK A : A = {i \in DOMAIN s : s[i] = c}
  OBVIOUS
<1>5. PICK B : B = {i \in DOMAIN t : t[i] = c}
  OBVIOUS
<1>6. IsFiniteSet(A) /\ n + 1 \notin A
  <2>1. IsFiniteSet(1..n)
    BY FS_Interval
  <2>2. A \in SUBSET (1..n) /\ n + 1 \notin A
    BY <1>3, <1>4
  <2> QED
    BY <2>1, <2>2, FS_Subset
<1>7. Cardinality(A) \in Nat
  BY <1>6, FS_CardinalityType
<1>8. B = IF e = c THEN A \cup {n + 1} ELSE A
  <2>1. \A i : i \in 1..(n + 1) <=> (i \in 1..n \/ i = n + 1)
    OBVIOUS
  <2>2. \A i : i \in B <=> i \in A \/ (i = n + 1 /\ e = c)
    BY <1>3, <1>4, <1>5, <2>1
  <2> QED
    BY <2>2
<1>9. Cardinality(B) = Cardinality(A) + (IF e = c THEN 1 ELSE 0)
  <2>1. CASE e = c
    <3>1. Cardinality(A \cup {n + 1}) = Cardinality(A) + 1
      BY <1>6, FS_AddElement
    <3> QED
      BY <1>8, <2>1, <3>1
  <2>2. CASE e # c
    BY <1>7, <1>8, <2>2
  <2> QED
    BY <2>1, <2>2
<1> QED
  BY <1>2, <1>4, <1>5, <1>7, <1>9 DEF Tally

(* A part of a sequence that is over stays as it is when the sequence goes on. *)
LEMMA PartStays ==
  ASSUME NEW T, NEW s \in Seq(T), NEW e \in T, NEW a \in Nat \ {0}, NEW b \in Nat,
         b <= Len(s)
  PROVE  SubSeq(Append(s, e), a, b) = SubSeq(s, a, b)
<1>1. CASE a > b
  BY <1>1, SubSeqEmpty
<1>2. CASE a <= b
  <2>1. <<e>> \in Seq(T) /\ Append(s, e) = s \o <<e>>
    BY AppendIsConcat
  <2>2. a \in 1..(Len(s) + 1) /\ b \in a..Len(s)
    BY <1>2
  <2> QED
    BY <2>1, <2>2, SubSeqOfConcat1
<1> QED
  BY <1>1, <1>2

(* The part at the end goes on with the sequence. *)
LEMMA PartGoesOn ==
  ASSUME NEW T, NEW s \in Seq(T), NEW e \in T, NEW a \in Nat \ {0}, a <= Len(s) + 1
  PROVE  /\ SubSeq(s, a, Len(s)) \in Seq(T)
         /\ SubSeq(Append(s, e), a, Len(s) + 1) = Append(SubSeq(s, a, Len(s)), e)
<1>1. PICK t : t = Append(s, e)
  OBVIOUS
<1>2. PICK n \in Nat : n = Len(s)
  OBVIOUS
<1>3. t \in Seq(T) /\ Len(t) = n + 1 /\ t[n + 1] = e
  BY <1>1, <1>2
<1>4. SubSeq(s, a, n) \in Seq(T)
  BY <1>2
<1>5. SubSeq(t, a, n) = SubSeq(s, a, n)
  BY <1>1, <1>2, PartStays
<1>6. SubSeq(t, a, n + 1) = SubSeq(t, a, n) \o <<t[n + 1]>>
  <2>1. a \in 1..Len(t) /\ n + 1 \in a..Len(t) /\ (n + 1) - 1 = n
    BY <1>2, <1>3
  <2>2. SubSeq(t, a, n + 1) = SubSeq(t, a, (n + 1) - 1) \o <<t[n + 1]>>
    BY <1>3, <2>1, SubSeqRecursiveSecond
  <2> QED
    BY <2>1, <2>2
<1>7. SubSeq(s, a, n) \o <<e>> = Append(SubSeq(s, a, n), e)
  BY <1>4, AppendIsConcat
<1> QED
  BY <1>1, <1>2, <1>3, <1>4, <1>5, <1>6, <1>7

(* Numbers that are bounded have a greatest. *)
LEMMA MaxIn ==
  ASSUME NEW n \in Nat, NEW S \in SUBSET (0..n), S # {}
  PROVE  Max(S) \in S /\ \A i \in S : i <= Max(S)
<1>1. PICK T : T = {j \in 0..n : n - j \in S}
  OBVIOUS
<1>2. T \in SUBSET Nat /\ T # {}
  <2>1. PICK i \in S : TRUE
    OBVIOUS
  <2>2. n - i \in 0..n /\ n - (n - i) = i
    OBVIOUS
  <2> QED
    BY <1>1, <2>2
<1>3. PICK m \in T : \A j \in T : m <= j
  BY <1>2, LeastNatural
<1>4. n - m \in S
  BY <1>1
<1>5. ASSUME NEW i \in S PROVE i <= n - m
  <2>1. n - i \in T
    <3>1. n - i \in 0..n /\ n - (n - i) = i
      OBVIOUS
    <3> QED
      BY <1>1, <3>1
  <2>2. m <= n - i
    BY <1>3, <2>1
  <2>3. m \in Int /\ i \in Int
    BY <1>1
  <2> QED
    BY <2>2, <2>3
<1>6. Max(S) = n - m
  <2>1. S \in SUBSET Int
    OBVIOUS
  <2> QED
    BY <1>4, <1>5, <2>1, MaxOnly
<1> QED
  BY <1>4, <1>5, <1>6

(* The messages of second n, and its column, of any seconds and codes. *)
SecondOf(S, C, n) == SubSeq(C, (IF n = 1 THEN 0 ELSE S[n - 1]) + 1, S[n])

ColumnOf(S, C, n, c) ==
  LET busy == {m \in 1..n : SecondOf(S, C, m) # <<>>}
  IN  IF busy = {} THEN 0 ELSE Tally(SecondOf(S, C, Max(busy)), c)

(* A column depends on the seconds until then. *)
LEMMA ColumnSame ==
  ASSUME NEW S, NEW C, NEW S2, NEW C2, NEW n \in Nat, NEW c,
         \A m \in 1..n : SecondOf(S, C, m) = SecondOf(S2, C2, m)
  PROVE  ColumnOf(S, C, n, c) = ColumnOf(S2, C2, n, c)
<1>1. PICK busy : busy = {m \in 1..n : SecondOf(S, C, m) # <<>>}
  OBVIOUS
<1>2. busy = {m \in 1..n : SecondOf(S2, C2, m) # <<>>}
  BY <1>1
<1>3. ColumnOf(S, C, n, c) = IF busy = {} THEN 0 ELSE Tally(SecondOf(S, C, Max(busy)), c)
  BY <1>1 DEF ColumnOf
<1>4. ColumnOf(S2, C2, n, c) = IF busy = {} THEN 0 ELSE Tally(SecondOf(S2, C2, Max(busy)), c)
  BY <1>2 DEF ColumnOf
<1>5. busy # {} => Max(busy) \in 1..n
  <2>1. busy \in SUBSET (0..n) /\ busy \subseteq 1..n
    BY <1>1
  <2> QED
    BY <2>1, MaxIn
<1> QED
  BY <1>3, <1>4, <1>5

(* A second that is over keeps its messages when others come. *)
LEMMA ColumnStays ==
  ASSUME NEW S \in Seq(Nat), NEW C \in Seq(States), NEW e \in States, NEW n \in 1..Len(S),
         NEW c, \A m \in DOMAIN S : S[m] <= Len(C)
  PROVE  ColumnOf(S, Append(C, e), n, c) = ColumnOf(S, C, n, c)
<1>1. ASSUME NEW m \in 1..n PROVE SecondOf(S, C, m) = SecondOf(S, Append(C, e), m)
  <2>1. PICK a \in Nat \ {0} : a = (IF m = 1 THEN 0 ELSE S[m - 1]) + 1
    <3>1. m # 1 => m - 1 \in 1..Len(S)
      OBVIOUS
    <3>2. m # 1 => S[m - 1] \in Nat
      BY <3>1
    <3> QED
      BY <3>2
  <2>2. PICK b \in Nat : b = S[m]
    OBVIOUS
  <2>3. b <= Len(C)
    BY <2>2
  <2>4. SubSeq(Append(C, e), a, b) = SubSeq(C, a, b)
    BY <2>3, PartStays
  <2> QED
    BY <2>1, <2>2, <2>4 DEF SecondOf
<1>2. n \in Nat
  OBVIOUS
<1> QED
  BY <1>1, <1>2, ColumnSame

(* The next second leaves the columns of those before as they are. *)
LEMMA ColumnLater ==
  ASSUME NEW S \in Seq(Nat), NEW C, NEW v \in Nat, NEW n \in 1..Len(S), NEW c
  PROVE  ColumnOf(Append(S, v), C, n, c) = ColumnOf(S, C, n, c)
<1>1. ASSUME NEW m \in 1..n PROVE SecondOf(Append(S, v), C, m) = SecondOf(S, C, m)
  <2>1. Append(S, v)[m] = S[m]
    OBVIOUS
  <2>2. m # 1 => Append(S, v)[m - 1] = S[m - 1]
    OBVIOUS
  <2> QED
    BY <2>1, <2>2 DEF SecondOf
<1>2. n \in Nat
  OBVIOUS
<1> QED
  BY <1>1, <1>2, ColumnSame

(* The column of a second with messages counts them; that of a quiet second is the
   one before. *)
LEMMA ColumnNext ==
  ASSUME NEW S, NEW C, NEW n \in Nat \ {0}, NEW c
  PROVE  ColumnOf(S, C, n, c) =
           IF SecondOf(S, C, n) # <<>> THEN Tally(SecondOf(S, C, n), c)
           ELSE IF n = 1 THEN 0 ELSE ColumnOf(S, C, n - 1, c)
<1>1. PICK busy : busy = {m \in 1..n : SecondOf(S, C, m) # <<>>}
  OBVIOUS
<1>2. ColumnOf(S, C, n, c) = IF busy = {} THEN 0 ELSE Tally(SecondOf(S, C, Max(busy)), c)
  BY <1>1 DEF ColumnOf
<1>3. CASE SecondOf(S, C, n) # <<>>
  <2>1. n \in busy /\ busy \in SUBSET Int /\ \A m \in busy : m <= n
    BY <1>1, <1>3
  <2>2. Max(busy) = n
    BY <2>1, MaxOnly
  <2> QED
    BY <1>2, <1>3, <2>1, <2>2
<1>4. CASE SecondOf(S, C, n) = <<>>
  <2>1. busy = {m \in 1..(n - 1) : SecondOf(S, C, m) # <<>>}
    <3>1. \A m : m \in 1..n <=> (m \in 1..(n - 1) \/ m = n)
      OBVIOUS
    <3> QED
      BY <1>1, <1>4, <3>1
  <2>2. CASE n = 1
    <3>1. busy = {}
      BY <2>1, <2>2
    <3> QED
      BY <1>2, <1>4, <2>2, <3>1
  <2>3. CASE n # 1
    <3>1. ColumnOf(S, C, n - 1, c) =
            IF busy = {} THEN 0 ELSE Tally(SecondOf(S, C, Max(busy)), c)
      BY <2>1 DEF ColumnOf
    <3> QED
      BY <1>2, <1>4, <2>3, <3>1
  <2> QED
    BY <2>2, <2>3
<1> QED
  BY <1>3, <1>4

Codes(L) == [i \in DOMAIN L |-> L[i][2]]

(* The messages that had come when the running second began. *)
Begun(S) == IF S = <<>> THEN 0 ELSE Last(S)

ColumnsShow(S, C) ==
  \A c \in States : \A i \in 1..MaxEntries :
    LET n == Len(S) - MaxEntries + i
    IN  historicDataArrays[c][i] = IF n < 1 THEN 0 ELSE ColumnOf(S, C, n, c)

(* The counters of the running second and of all seconds, and the columns, are of
   the messages handled; plot tells whether this second had one. *)
MainInv ==
  /\ \A m \in DOMAIN seconds : seconds[m] <= Len(log)
  /\ plot <=> seconds = <<>> \/ Begun(seconds) < Len(log)
  /\ \A c \in States :
       /\ eventsDelta[c] = Tally(SubSeq(Codes(log), Begun(seconds) + 1, Len(log)), c)
       /\ counts[c] = Tally(Codes(log), c)
  /\ ColumnsShow(seconds, Codes(log))

(* The main page's module counts as this one does. *)
LEMMA MainCounts ==
  ASSUME NEW S
  PROVE  Main!Cardinality(S) = Cardinality(S) /\ Main!Max(S) = Max(S)
<1>1. Main!Cardinality(S) = Cardinality(S)
  BY DEF Main!Cardinality, Cardinality
<1>2. Main!Max(S) = Max(S)
  BY DEF Main!Max, Max
<1> QED
  BY <1>1, <1>2

(* What the invariant says of any seconds and messages is what the page shows. *)
LEMMA MainInvShows ==
  ASSUME MainInv
  PROVE  MainPageCounts
<1>1. PICK C : C = Codes(log)
  OBVIOUS
<1>2. ASSUME NEW c \in States
      PROVE  counts[c] = Main!Cardinality({i \in DOMAIN C : C[i] = c})
  <2>1. counts[c] = Cardinality({i \in DOMAIN C : C[i] = c})
    BY <1>1 DEF MainInv, Tally
  <2> QED
    BY <2>1, MainCounts
<1>3. ASSUME NEW n, NEW c PROVE Main!Column(C, n, c) = ColumnOf(seconds, C, n, c)
  <2>1. \A m : Main!Second(C, m) = SecondOf(seconds, C, m)
    BY DEF Main!Second, SecondOf
  <2>2. PICK busy : busy = {m \in 1..n : SecondOf(seconds, C, m) # <<>>}
    OBVIOUS
  <2>3. PICK last : last = Max(busy)
    OBVIOUS
  <2>4. PICK s : s = SecondOf(seconds, C, last)
    OBVIOUS
  <2>5. ColumnOf(seconds, C, n, c) =
          IF busy = {} THEN 0 ELSE Cardinality({i \in DOMAIN s : s[i] = c})
    BY <2>2, <2>3, <2>4 DEF ColumnOf, Tally
  <2>6. busy = {m \in 1..n : Main!Second(C, m) # <<>>}
    BY <2>1, <2>2
  <2>7. Main!Max(busy) = last /\ Main!Second(C, last) = s
    BY <2>1, <2>3, <2>4, MainCounts
  <2>8. Main!Column(C, n, c) =
          IF busy = {} THEN 0 ELSE Main!Cardinality({i \in DOMAIN s : s[i] = c})
    BY <2>6, <2>7 DEF Main!Column
  <2> QED
    BY <2>5, <2>8, MainCounts
<1>4. ASSUME NEW c \in States, NEW i \in 1..MaxEntries,
             NEW n, n = Len(seconds) - MaxEntries + i
      PROVE  historicDataArrays[c][i] = IF n < 1 THEN 0 ELSE Main!Column(C, n, c)
  <2>1. historicDataArrays[c][i] = IF n < 1 THEN 0 ELSE ColumnOf(seconds, C, n, c)
    BY <1>1, <1>4 DEF MainInv, ColumnsShow
  <2> QED
    BY <1>3, <2>1
<1>5. Main!Shows(C)
  BY <1>2, <1>4, Zenon DEF Main!Shows
<1> QED
  BY <1>1, <1>5 DEF MainPageCounts, Codes

(* The codes of the messages are states, and go on with the log. *)
LEMMA CodesTyped ==
  ASSUME NEW L \in Seq(Services \X States)
  PROVE  /\ Codes(L) \in Seq(States) /\ Len(Codes(L)) = Len(L)
         /\ \A k \in Services, code \in States :
              Codes(Append(L, <<k, code>>)) = Append(Codes(L), code)
<1>1. \A i \in DOMAIN L : L[i] \in Services \X States
  OBVIOUS
<1>2. \A i \in DOMAIN L : L[i][2] \in States
  BY <1>1
<1>3. Codes(L) \in Seq(States) /\ Len(Codes(L)) = Len(L)
  BY <1>2 DEF Codes
<1>4. ASSUME NEW k \in Services, NEW code \in States
      PROVE  Codes(Append(L, <<k, code>>)) = Append(Codes(L), code)
  <2>1. PICK e : e = <<k, code>> /\ e \in Services \X States /\ e[2] = code
    <3>1. <<k, code>> \in Services \X States /\ <<k, code>>[2] = code
      OBVIOUS
    <3> QED
      BY <3>1
  <2>2. PICK M : M = Append(L, e)
    OBVIOUS
  <2>3. PICK n \in Nat : n = Len(L)
    OBVIOUS
  <2>4. /\ DOMAIN M = 1..(n + 1) /\ M[n + 1] = e /\ \A i \in 1..n : M[i] = L[i]
        /\ DOMAIN L = 1..n /\ M \in Seq(Services \X States) /\ Len(M) = n + 1
    BY <2>1, <2>2, <2>3
  <2>5. PICK c : c = Codes(L)
    OBVIOUS
  <2>6. c \in Seq(States) /\ Len(c) = n /\ \A i \in 1..n : c[i] = L[i][2]
    BY <1>3, <2>3, <2>4, <2>5 DEF Codes
  <2>7. PICK d : d = Codes(M)
    OBVIOUS
  <2>8. /\ DOMAIN d = 1..(n + 1) /\ \A i \in 1..(n + 1) : d[i] = M[i][2]
        /\ d = [i \in 1..(n + 1) |-> M[i][2]]
    BY <2>4, <2>7 DEF Codes
  <2>9. \A i \in 1..(n + 1) : M[i][2] \in States
    <3>1. \A i \in 1..(n + 1) : M[i] \in Services \X States
      BY <2>4
    <3> QED
      BY <3>1
  <2>10. d \in Seq(States) /\ Len(d) = n + 1
    BY <2>8, <2>9
  <2>11. Append(c, code) \in Seq(States) /\ Len(Append(c, code)) = n + 1
         /\ \A i \in 1..n : Append(c, code)[i] = c[i]
         /\ Append(c, code)[n + 1] = code
    BY <2>6
  <2>12. ASSUME NEW i \in 1..(n + 1) PROVE d[i] = Append(c, code)[i]
    <3>1. CASE i \in 1..n
      BY <2>4, <2>6, <2>8, <2>11, <3>1
    <3>2. CASE i = n + 1
      BY <2>1, <2>4, <2>8, <2>11, <3>2
    <3>3. i \in 1..n \/ i = n + 1
      OBVIOUS
    <3> QED
      BY <3>1, <3>2, <3>3, Zenon
  <2>13. d = Append(c, code)
    BY <2>10, <2>11, <2>12, SeqEqual
  <2> QED
    BY <2>1, <2>2, <2>5, <2>7, <2>13
<1> QED
  BY <1>3, <1>4

(* The running second began at or before now. *)
LEMMA BegunTyped ==
  ASSUME MainInv, LogTyped, Main!TypeOK
  PROVE  Begun(seconds) \in Nat /\ Begun(seconds) <= Len(log)
<1>1. seconds \in Seq(Nat) /\ Len(log) \in Nat
  BY DEF Main!TypeOK, LogTyped
<1>2. CASE seconds = <<>>
  BY <1>1, <1>2 DEF Begun
<1>3. CASE seconds # <<>>
  <2>1. Len(seconds) \in DOMAIN seconds /\ Last(seconds) = seconds[Len(seconds)]
    BY <1>1, <1>3, EmptySeq DEF Last
  <2> QED
    BY <1>1, <1>3, <2>1 DEF Begun, MainInv
<1> QED
  BY <1>2, <1>3

(* A message counts in its second and in the whole, and in no second before. *)
LEMMA MessageShown ==
  ASSUME MainInv, LogTyped, Main!TypeOK, NEW k \in Services, NEW code \in States,
         log' = Append(log, <<k, code>>), Main!NewEvent(code)
  PROVE  MainInv'
<1>1. PICK L \in Seq(Services \X States) : L = log
  BY DEF LogTyped
<1>2. PICK C : C = Codes(L)
  OBVIOUS
<1>3. PICK D : D = Append(C, code)
  OBVIOUS
<1>4. PICK n \in Nat : n = Len(L)
  OBVIOUS
<1>5. PICK b \in Nat : b = Begun(seconds) /\ b <= n
  BY <1>1, <1>4, BegunTyped
<1>6. C \in Seq(States) /\ Len(C) = n /\ D = Codes(Append(L, <<k, code>>))
  BY <1>2, <1>3, <1>4, CodesTyped
<1>7. Len(Append(L, <<k, code>>)) = n + 1
  BY <1>4
<1>8. Codes(log') = D /\ Len(log') = n + 1
  BY <1>1, <1>6, <1>7
<1>9. /\ eventsDelta' = [eventsDelta EXCEPT ![code] = @ + 1]
      /\ counts' = [counts EXCEPT ![code] = @ + 1]
      /\ UNCHANGED <<historicDataArrays, seconds>>
  BY DEF Main!NewEvent
<1>10. plot'
  BY DEF Main!NewEvent
<1>11. Begun(seconds') = b
  BY <1>5, <1>9
<1>12. \A m \in DOMAIN seconds' : seconds'[m] <= Len(log')
  <2>1. ASSUME NEW m \in DOMAIN seconds PROVE seconds[m] <= n + 1
    <3>1. seconds[m] \in Nat /\ seconds[m] <= n
      BY <1>1, <1>4 DEF MainInv, Main!TypeOK
    <3> QED
      BY <3>1
  <2> QED
    BY <1>8, <1>9, <2>1
<1>13. plot' <=> seconds' = <<>> \/ Begun(seconds') < Len(log')
  <2>1. b < n + 1
    BY <1>5
  <2>2. Begun(seconds') < Len(log')
    BY <1>8, <1>11, <2>1
  <2> QED
    BY <1>10, <2>2, Zenon
<1>14. ASSUME NEW c \in States
       PROVE  /\ eventsDelta'[c] = Tally(SubSeq(D, b + 1, n + 1), c)
              /\ counts'[c] = Tally(D, c)
  <2>1. PICK part : part = SubSeq(C, b + 1, n)
    OBVIOUS
  <2>2. part \in Seq(States) /\ SubSeq(D, b + 1, n + 1) = Append(part, code)
    <3>1. PICK a \in Nat \ {0} : a = b + 1 /\ a <= Len(C) + 1
      BY <1>5, <1>6
    <3>3. C \in Seq(States)
      BY <1>6
    <3>4. a <= Len(C) + 1
      BY <3>1
    <3>2. SubSeq(C, a, Len(C)) \in Seq(States)
          /\ SubSeq(Append(C, code), a, Len(C) + 1) = Append(SubSeq(C, a, Len(C)), code)
      BY <3>3, <3>4, PartGoesOn
    <3> QED
      BY <1>3, <1>6, <2>1, <3>1, <3>2
  <2>3. eventsDelta[c] = Tally(part, c) /\ counts[c] = Tally(C, c)
    BY <1>1, <1>2, <1>4, <1>5, <2>1 DEF MainInv
  <2>4. Tally(Append(part, code), c) = Tally(part, c) + (IF code = c THEN 1 ELSE 0)
        /\ Tally(D, c) = Tally(C, c) + (IF code = c THEN 1 ELSE 0)
    <3>1. Tally(Append(part, code), c) = Tally(part, c) + (IF code = c THEN 1 ELSE 0)
      BY <2>2, TallyAppend, Zenon
    <3>2. Tally(Append(C, code), c) = Tally(C, c) + (IF code = c THEN 1 ELSE 0)
      BY <1>6, TallyAppend, Zenon
    <3> QED
      BY <1>3, <3>1, <3>2
  <2>5. eventsDelta'[c] = eventsDelta[c] + (IF code = c THEN 1 ELSE 0)
        /\ counts'[c] = counts[c] + (IF code = c THEN 1 ELSE 0)
    <3>1. eventsDelta \in [States -> Nat] /\ counts \in [States -> Nat]
      BY DEF Main!TypeOK
    <3> QED
      BY <1>9, <3>1
  <2> QED
    BY <2>2, <2>3, <2>4, <2>5
<1>15. ColumnsShow(seconds, C)
  BY <1>1, <1>2 DEF MainInv
<1>16. ASSUME NEW c \in States, NEW i \in 1..MaxEntries,
              NEW m, m = Len(seconds) - MaxEntries + i
       PROVE  historicDataArrays[c][i] = IF m < 1 THEN 0 ELSE ColumnOf(seconds, D, m, c)
  <2>1. historicDataArrays[c][i] = IF m < 1 THEN 0 ELSE ColumnOf(seconds, C, m, c)
    BY <1>15, <1>16 DEF ColumnsShow
  <2>2. seconds \in Seq(Nat) /\ MaxEntries \in Nat
    BY BoundsAssumption DEF Main!TypeOK
  <2>3. m < 1 \/ m \in 1..Len(seconds)
    BY <1>16, <2>2
  <2>4. m \in 1..Len(seconds) => ColumnOf(seconds, D, m, c) = ColumnOf(seconds, C, m, c)
    <3>1. \A l \in DOMAIN seconds : seconds[l] <= Len(C)
      BY <1>1, <1>4, <1>6 DEF MainInv
    <3> QED
      BY <1>3, <1>6, <2>2, <3>1, ColumnStays
  <2> QED
    BY <2>1, <2>3, <2>4, Zenon
<1>17. ColumnsShow(seconds, D)
  BY <1>16, Zenon DEF ColumnsShow
<1>18. ColumnsShow(seconds, D)'
  BY <1>9, <1>17 DEF ColumnsShow
<1> QED
  BY <1>8, <1>9, <1>11, <1>12, <1>13, <1>14, <1>18 DEF MainInv, ColumnsShow

(* When a second is over its messages are its column; a quiet one repeats the last
   column, and the others move on by one. *)
LEMMA SecondShown ==
  ASSUME MainInv, LogTyped, Main!TypeOK, Main!Refresh(Len(log)), UNCHANGED log
  PROVE  MainInv'
<1>1. PICK L \in Seq(Services \X States) : L = log
  BY DEF LogTyped
<1>2. PICK C : C = Codes(L)
  OBVIOUS
<1>3. PICK n \in Nat : n = Len(L)
  OBVIOUS
<1>4. C \in Seq(States) /\ Len(C) = n
  BY <1>2, <1>3, CodesTyped
<1>5. PICK b \in Nat : b = Begun(seconds) /\ b <= n
  BY <1>1, <1>3, BegunTyped
<1>6. PICK S \in Seq(Nat) : S = seconds
  BY DEF Main!TypeOK
<1>7. PICK N \in Nat : N = Len(S)
  OBVIOUS
<1>8. PICK S2 \in Seq(Nat) : S2 = Append(S, n)
  <2>1. Append(S, n) \in Seq(Nat)
    OBVIOUS
  <2> QED
    BY <2>1
<1>9. /\ Len(S2) = N + 1 /\ S2[N + 1] = n /\ DOMAIN S2 = 1..(N + 1)
      /\ \A m \in 1..N : S2[m] = S[m]
  BY <1>7, <1>8
<1>10. seconds' = S2 /\ counts' = counts /\ log' = L
  BY <1>1, <1>3, <1>6, <1>8 DEF Main!Refresh
<1>11. eventsDelta' = [c \in States |-> 0]
  BY DEF Main!Refresh, Main!DeltaAfterRefresh, Main!None
<1>12. ~plot'
  BY DEF Main!Refresh
<1>13. Begun(seconds') = n
  <2>1. S2 # <<>> /\ Last(S2) = n
    BY <1>9 DEF Last
  <2> QED
    BY <1>10, <2>1 DEF Begun
<1>14. \A m \in DOMAIN seconds' : seconds'[m] <= Len(log')
  <2>3. \A m \in DOMAIN seconds : seconds[m] <= Len(log)
    BY Zenon DEF MainInv
  <2>4. DOMAIN S = 1..N
    BY <1>7
  <2>1. \A m \in 1..N : S[m] <= n
    BY <1>1, <1>3, <1>6, <2>3, <2>4
  <2>2. ASSUME NEW m \in 1..(N + 1) PROVE S2[m] <= n
    <3>1. m \in 1..N \/ m = N + 1
      OBVIOUS
    <3>2. CASE m \in 1..N
      BY <1>9, <2>1, <3>2
    <3>3. CASE m = N + 1
      BY <1>9, <3>3
    <3> QED
      BY <3>1, <3>2, <3>3, Zenon
  <2> QED
    BY <1>3, <1>9, <1>10, <2>2
<1>15. plot' <=> seconds' = <<>> \/ Begun(seconds') < Len(log')
  <2>1. S2 # <<>> /\ ~(n < n)
    BY <1>9
  <2>2. seconds' # <<>> /\ ~(Begun(seconds') < Len(log'))
    BY <1>3, <1>10, <1>13, <2>1
  <2> QED
    BY <1>12, <2>2, Zenon
<1>16. ASSUME NEW c \in States
       PROVE  /\ eventsDelta'[c] = Tally(SubSeq(C, n + 1, n), c)
              /\ counts'[c] = Tally(C, c)
  <2>1. SubSeq(C, n + 1, n) = <<>>
    BY <1>4
  <2>2. eventsDelta'[c] = 0
    BY <1>11
  <2>3. counts'[c] = Tally(C, c)
    BY <1>1, <1>2, <1>10 DEF MainInv
  <2> QED
    BY <2>1, <2>2, <2>3, TallyEmpty
<1>17. PICK part : part = SubSeq(C, b + 1, n)
  OBVIOUS
<1>18. SecondOf(S2, C, N + 1) = part
  <2>1. (IF N + 1 = 1 THEN 0 ELSE S2[(N + 1) - 1]) = b
    <3>1. CASE N = 0
      <4>1. S = <<>>
        BY <1>7, <3>1, EmptySeq
      <4> QED
        BY <1>5, <1>6, <3>1, <4>1 DEF Begun
    <3>2. CASE N # 0
      <4>1. S # <<>> /\ Last(S) = S[N]
        BY <1>7, <3>2 DEF Last
      <4>2. S2[(N + 1) - 1] = S[N]
        BY <1>9, <3>2
      <4> QED
        BY <1>5, <1>6, <3>2, <4>1, <4>2 DEF Begun
    <3> QED
      BY <3>1, <3>2
  <2> QED
    BY <1>9, <1>17, <2>1 DEF SecondOf
<1>19. (part # <<>>) <=> b < n
  <2>1. part \in Seq(States) /\ Len(part) = IF b < n THEN n - b ELSE 0
    BY <1>4, <1>5, <1>17
  <2> QED
    BY <2>1
<1>20. PICK M \in Nat \ {0} : M = MaxEntries
  BY BoundsAssumption
<1>21. ASSUME NEW c \in States
       PROVE  \A i \in 1..M :
                LET m == (N + 1) - M + i
                IN  historicDataArrays'[c][i] = IF m < 1 THEN 0 ELSE ColumnOf(S2, C, m, c)
  <2>1. PICK a \in Seq(Nat) : a = historicDataArrays[c] /\ Len(a) = M
    BY <1>20 DEF Main!TypeOK
  <2>2. \A i \in 1..M : LET m == N - M + i
                        IN  a[i] = IF m < 1 THEN 0 ELSE ColumnOf(S, C, m, c)
    BY <1>1, <1>2, <1>6, <1>7, <1>20, <2>1 DEF MainInv, ColumnsShow
  <2>3. PICK v : v = IF plot THEN eventsDelta[c] ELSE a[M]
    OBVIOUS
  <2>4. v \in Nat
    <3>1. eventsDelta[c] \in Nat
      BY DEF Main!TypeOK
    <3>2. a[M] \in Nat
      BY <2>1
    <3> QED
      BY <2>3, <3>1, <3>2
  <2>5. PICK w : w = Append(Tail(a), v)
    OBVIOUS
  <2>6. historicDataArrays'[c] = w
    <3>1. Main!Last(a) = a[M]
      BY <2>1 DEF Main!Last
    <3> QED
      BY <2>1, <2>3, <2>5, <3>1 DEF Main!Refresh
  <2>7. w[M] = v /\ \A i \in 1..(M - 1) : w[i] = a[i + 1]
    <3>1. Tail(a) \in Seq(Nat) /\ Len(Tail(a)) = M - 1
          /\ \A i \in 1..(M - 1) : Tail(a)[i] = a[i + 1]
      <4>1. a # <<>>
        BY <2>1
      <4> QED
        BY <2>1, <4>1
    <3> QED
      BY <2>4, <2>5, <3>1
  <2>8. v = ColumnOf(S2, C, N + 1, c)
    <3>1. ColumnOf(S2, C, N + 1, c) =
            IF part # <<>> THEN Tally(part, c)
            ELSE IF N = 0 THEN 0 ELSE ColumnOf(S2, C, N, c)
      <4>1. N + 1 \in Nat \ {0} /\ (N + 1) - 1 = N /\ (N + 1 = 1 <=> N = 0)
        OBVIOUS
      <4>2. PICK k \in Nat \ {0} : k = N + 1
        BY <4>1
      <4>3. ColumnOf(S2, C, k, c) =
              IF SecondOf(S2, C, k) # <<>> THEN Tally(SecondOf(S2, C, k), c)
              ELSE IF k = 1 THEN 0 ELSE ColumnOf(S2, C, k - 1, c)
        BY ColumnNext
      <4> QED
        BY <1>18, <4>1, <4>2, <4>3
    <3>2. eventsDelta[c] = Tally(part, c)
      BY <1>1, <1>2, <1>3, <1>5, <1>17 DEF MainInv
    <3>3. N # 0 => a[M] = ColumnOf(S2, C, N, c)
      <4>1. SUFFICES ASSUME N # 0 PROVE a[M] = ColumnOf(S2, C, N, c)
        OBVIOUS
      <4>2. N \in 1..Len(S)
        BY <1>7, <4>1
      <4>3. ColumnOf(S2, C, N, c) = ColumnOf(S, C, N, c)
        BY <1>8, <4>2, ColumnLater
      <4>4. M \in 1..M /\ N - M + M = N /\ ~(N < 1)
        BY <4>1
      <4> QED
        BY <2>2, <4>3, <4>4
    <3>4. N = 0 => a[M] = 0
      <4>1. SUFFICES ASSUME N = 0 PROVE a[M] = 0
        OBVIOUS
      <4>2. M \in 1..M /\ N - M + M = 0
        BY <4>1
      <4> QED
        BY <2>2, <4>2
    <3>5. plot <=> S = <<>> \/ b < n
      BY <1>1, <1>3, <1>5, <1>6, Zenon DEF MainInv
    <3>6. S = <<>> <=> N = 0
      BY <1>7
    <3>7. CASE b < n
      <4>1. plot /\ part # <<>>
        BY <1>19, <3>5, <3>7, Zenon
      <4> QED
        BY <2>3, <3>1, <3>2, <4>1, Zenon
    <3>8. CASE ~(b < n) /\ N # 0
      <4>1. ~plot /\ part = <<>>
        BY <1>19, <3>5, <3>6, <3>8, Zenon
      <4> QED
        BY <2>3, <3>1, <3>3, <3>8, <4>1, Zenon
    <3>9. CASE ~(b < n) /\ N = 0
      <4>1. plot /\ part = <<>>
        BY <1>19, <3>5, <3>6, <3>9, Zenon
      <4>2. eventsDelta[c] = 0
        BY <3>2, <4>1, TallyEmpty
      <4> QED
        BY <2>3, <3>1, <3>9, <4>1, <4>2, Zenon
    <3> QED
      BY <3>7, <3>8, <3>9, Zenon
  <2>9. ASSUME NEW i \in 1..M, NEW m, m = (N + 1) - M + i
        PROVE  w[i] = IF m < 1 THEN 0 ELSE ColumnOf(S2, C, m, c)
    <3>1. CASE i = M
      <4>1. m = N + 1 /\ ~(m < 1)
        BY <2>9, <3>1
      <4> QED
        BY <2>7, <2>8, <3>1, <4>1
    <3>2. CASE i # M
      <4>1. i \in 1..(M - 1) /\ i + 1 \in 1..M /\ m = N - M + (i + 1)
        BY <2>9, <3>2
      <4>2. w[i] = a[i + 1]
        BY <2>7, <4>1
      <4>3. a[i + 1] = IF m < 1 THEN 0 ELSE ColumnOf(S, C, m, c)
        BY <2>2, <4>1
      <4>4. ~(m < 1) => ColumnOf(S2, C, m, c) = ColumnOf(S, C, m, c)
        <5>1. SUFFICES ASSUME ~(m < 1)
                       PROVE  ColumnOf(S2, C, m, c) = ColumnOf(S, C, m, c)
          OBVIOUS
        <5>2. m \in 1..Len(S)
          BY <1>7, <4>1, <5>1
        <5> QED
          BY <1>8, <5>2, ColumnLater
      <4> QED
        BY <4>2, <4>3, <4>4
    <3> QED
      BY <3>1, <3>2
  <2> QED
    BY <2>6, <2>9
<1>22. ColumnsShow(seconds, C)'
  <2>1. ASSUME NEW c \in States, NEW i \in 1..MaxEntries,
               NEW m, m = Len(S2) - MaxEntries + i
        PROVE  historicDataArrays'[c][i] = IF m < 1 THEN 0 ELSE ColumnOf(S2, C, m, c)
    BY <1>9, <1>20, <1>21, <2>1
  <2> QED
    BY <1>10, <2>1, Zenon DEF ColumnsShow
<1>23. Codes(log') = C /\ Len(log') = n
  BY <1>2, <1>3, <1>10
<1> QED
  BY <1>10, <1>13, <1>14, <1>15, <1>16, <1>22, <1>23 DEF MainInv, ColumnsShow

(* Before the first message and the first second all is zero. *)
LEMMA NothingShown ==
  ASSUME Main!Init, log = <<>>
  PROVE  MainInv
<1>1. /\ eventsDelta = [c \in States |-> 0] /\ counts = [c \in States |-> 0]
      /\ historicDataArrays = [c \in States |-> [i \in 1..MaxEntries |-> 0]]
      /\ seconds = <<>>
  BY DEF Main!Init, Main!None
<1>2. plot
  BY DEF Main!Init
<1>3. log \in Seq(Services \X States) /\ Len(log) = 0
  OBVIOUS
<1>4. PICK C : C = Codes(log)
  OBVIOUS
<1>5. C \in Seq(States) /\ Len(C) = 0
  BY <1>3, <1>4, CodesTyped
<1>6. C = <<>>
  BY <1>5, EmptySeq
<1>7. Begun(seconds) = 0
  BY <1>1 DEF Begun
<1>8. \A m \in DOMAIN seconds : seconds[m] <= Len(log)
  <2>1. DOMAIN seconds = {}
    BY <1>1
  <2> QED
    BY <2>1
<1>9. plot <=> seconds = <<>> \/ Begun(seconds) < Len(log)
  BY <1>1, <1>2, Zenon
<1>10. SubSeq(C, Begun(seconds) + 1, Len(log)) = <<>>
  BY <1>3, <1>5, <1>7
<1>11. \A c \in States : eventsDelta[c] = Tally(SubSeq(C, Begun(seconds) + 1, Len(log)), c)
                          /\ counts[c] = Tally(C, c)
  <2>1. ASSUME NEW c \in States PROVE eventsDelta[c] = 0 /\ counts[c] = 0
    BY <1>1
  <2> QED
    BY <1>6, <1>10, <2>1, TallyEmpty
<1>12. ColumnsShow(seconds, C)
  <2>1. ASSUME NEW c \in States, NEW i \in 1..MaxEntries,
               NEW n, n = Len(seconds) - MaxEntries + i
        PROVE  historicDataArrays[c][i] = IF n < 1 THEN 0 ELSE ColumnOf(seconds, C, n, c)
    <3>1. PICK M \in Nat : M = MaxEntries
      BY BoundsAssumption
    <3>2. Len(seconds) = 0
      BY <1>1
    <3>3. n < 1
      BY <2>1, <3>1, <3>2
    <3>4. historicDataArrays[c][i] = 0
      BY <1>1
    <3> QED
      BY <3>3, <3>4
  <2> QED
    BY <2>1, Zenon DEF ColumnsShow
<1> QED
  BY <1>4, <1>8, <1>9, <1>11, <1>12, Zenon DEF MainInv

(* What leaves the main page and the log alone leaves the counts true. *)
LEMMA MainInvFrame ==
  ASSUME MainInv, UNCHANGED <<mainVars, log>>
  PROVE  MainInv'
<1>1. /\ eventsDelta' = eventsDelta /\ historicDataArrays' = historicDataArrays
      /\ counts' = counts /\ seconds' = seconds /\ log' = log
  BY DEF mainVars
<1>2. plot' = plot
  BY Zenon DEF mainVars
<1>3. ColumnsShow(seconds, Codes(log))'
  BY <1>1 DEF MainInv, ColumnsShow
<1>4. plot' <=> seconds' = <<>> \/ Begun(seconds') < Len(log')
  BY <1>1, <1>2, Zenon DEF MainInv
<1>5. \A m \in DOMAIN seconds' : seconds'[m] <= Len(log')
  BY <1>1, Zenon DEF MainInv
<1>6. \A c \in States :
        eventsDelta'[c] = Tally(SubSeq(Codes(log'), Begun(seconds') + 1, Len(log')), c)
        /\ counts'[c] = Tally(Codes(log'), c)
  BY <1>1, Zenon DEF MainInv
<1> QED
  BY <1>3, <1>4, <1>5, <1>6, Zenon DEF MainInv

(* addEvent() counts the message, or an error of a chart ends it before. *)
LEMMA AddEventShown ==
  ASSUME MainInv, LogTyped, Main!TypeOK, NEW msg, msg.service \in Services,
         AddEvent(msg)
  PROVE  MainInv'
<1>1. PICK k \in Services : k = msg.service
  OBVIOUS
<1>2. PICK code : code = Normalised(msg.result.return_code)
  OBVIOUS
<1>3. code \in States
  BY <1>2 DEF Normalised, States, OK, UNKNOWN
<1>4. \/ log' = Append(log, <<k, code>>) /\ Main!NewEvent(code)
      \/ UNCHANGED <<log, mainVars>>
  BY <1>1, <1>2 DEF AddEvent
<1> QED
  BY <1>3, <1>4, MessageShown, MainInvFrame

(* The counters and the columns are of the messages handled, at every time. *)
THEOREM MainInvAlways == Spec => []MainInv
<1>1. Init => MainInv
  BY NothingShown DEF Init
<1>2. DetailsInv /\ HistoryInv /\ DomainInv /\ MainInv /\ [Next]_vars => MainInv'
  <2> SUFFICES ASSUME DataTyped, DomainInv, MainInv, [Next]_vars
               PROVE  MainInv'
    BY DEF DetailsInv
  <2>1. LogTyped /\ Main!TypeOK
    BY DEF DomainInv
  <2>2. ASSUME NEW k \in Services, NEW check \in Checks, Missed(k, check)
        PROVE  MainInv'
    BY <2>2, MainInvFrame DEF Missed
  <2>3. ASSUME NEW k \in Services, NEW check \in Checks, Live(k, check)
        PROVE  MainInv'
    <3>1. PICK msg : msg = [service |-> k, result |-> Last(results'[k]), historicData |-> <<>>]
      OBVIOUS
    <3>2. AddEvent(msg) /\ msg.service \in Services
      BY <2>3, <3>1 DEF Live
    <3> QED
      BY <2>1, <3>2, AddEventShown
  <2>4. ASSUME NEW k \in Services, NEW m \in 1..MaxResults, Snapshot(k, m)
        PROVE  MainInv'
    <3>1. PICK msg : msg = [service |-> k, result |-> Last(results[k]),
               historicData |-> Capped(SubSeq(results[k], m + 1, Len(results[k])))]
      OBVIOUS
    <3>2. AddEvent(msg) /\ msg.service \in Services
      BY <2>4, <3>1 DEF Snapshot
    <3> QED
      BY <2>1, <3>2, AddEventShown
  <2>5. ASSUME NEW host \in Range(HostOf), GoToHostDetailedView(host)
        PROVE  MainInv'
    BY <2>5, MainInvFrame DEF GoToHostDetailedView
  <2>6. CASE BackFromHostDetailedView
    BY <2>6, MainInvFrame DEF BackFromHostDetailedView
  <2>7. ASSUME NEW k \in Services, ShowEvent(k) PROVE MainInv'
    BY <2>7, MainInvFrame DEF ShowEvent
  <2>8. ASSUME NEW graph \in Tabs, Expand(graph) PROVE MainInv'
    BY <2>8, MainInvFrame DEF Expand
  <2>9. CASE Collapse
    BY <2>9, MainInvFrame DEF Collapse
  <2>10. CASE Resize
    BY <2>10, MainInvFrame DEF Resize
  <2>11. CASE Refresh
    BY <2>1, <2>11, SecondShown DEF Refresh
  <2>12. CASE EventBackButton
    BY <2>12, MainInvFrame DEF EventBackButton
  <2>13. CASE Back
    BY <2>13, MainInvFrame DEF Back
  <2>14. CASE UNCHANGED vars
    BY <2>14, MainInvFrame DEF vars
  <2> QED
    BY <2>2, <2>3, <2>4, <2>5, <2>6, <2>7, <2>8, <2>9, <2>10, <2>11, <2>12, <2>13,
       <2>14 DEF Next
<1> QED
  BY <1>1, <1>2, DetailsInvAlways, HistoryInvAlways, DomainInvAlways, PTL DEF Spec

(* The main page counts every message handled to the end, once, under its state,
   and its columns are the messages of the latest seconds, a quiet one repeating
   the last busy one: newEvent() and refresh() of EventsLineGraph.js, up() of
   UpperCounters.js. *)
THEOREM MainPageAlwaysCounts == Spec => []MainPageCounts
BY MainInvAlways, MainInvShows, PTL

-----------------------------------------------------------------------------
(* The series of the performance chart. *)

(* Numbers of finitely many entries are bounded. *)
LEMMA EntriesBounded ==
  ASSUME NEW n \in Nat, NEW f, \A i \in 1..n : f[i] \in Nat
  PROVE  \E b \in Nat : \A i \in 1..n : f[i] <= b
<1> DEFINE T == {m \in Nat : m <= n => \E b \in Nat : \A i \in 1..m : f[i] <= b}
<1>1. 0 \in T
  OBVIOUS
<1>2. ASSUME NEW m \in Nat, m \in T PROVE m + 1 \in T
  <2> SUFFICES ASSUME m + 1 <= n PROVE \E b \in Nat : \A i \in 1..(m + 1) : f[i] <= b
    OBVIOUS
  <2>1. PICK b \in Nat : \A i \in 1..m : f[i] <= b
    BY <1>2
  <2>2. PICK e \in Nat : e = f[m + 1]
    OBVIOUS
  <2>3. PICK d \in Nat : d = b + e
    OBVIOUS
  <2>4. ASSUME NEW i \in 1..(m + 1) PROVE f[i] <= d
    <3>1. CASE i \in 1..m
      <4>1. f[i] <= b /\ f[i] \in Nat
        BY <2>1, <3>1
      <4> QED
        BY <2>3, <4>1
    <3>2. CASE i = m + 1
      BY <2>2, <2>3, <3>2
    <3>3. i \in 1..m \/ i = m + 1
      OBVIOUS
    <3> QED
      BY <3>1, <3>2, <3>3, Zenon
  <2> QED
    BY <2>4
<1> HIDE DEF T
<1>3. Nat \subseteq T
  BY <1>1, <1>2, NatSetInduction
<1>4. n \in T
  BY <1>3
<1> QED
  BY <1>4 DEF T

(* Places that miss none before them are numbered as they stand. *)
LEMMA PlacesInPlace ==
  ASSUME NEW s, Len(s) \in Nat, NEW S, NEW p, p = Places(s, S),
         \A i \in 1..Len(s) : i \in S => \A k \in 1..i : k \in S
  PROVE  \A n \in DOMAIN p : p[n] = n
<1>1. /\ p \in Seq(1..Len(s))
      /\ \A k \in DOMAIN p : p[k] \in S
      /\ \A i \in 1..Len(s) : i \in S => \E k \in DOMAIN p : p[k] = i
      /\ \A k, l \in DOMAIN p : k < l => p[k] < p[l]
  BY PlacesAscend
<1>2. PICK N \in Nat : DOMAIN p = 1..N
  BY <1>1, LenProperties
<1>3. \A k \in 1..N : p[k] \in 1..Len(s)
  BY <1>1, <1>2
<1> DEFINE T == {n \in Nat : n \in 1..N => p[n] = n}
<1>4. 0 \in T
  OBVIOUS
<1>5. ASSUME NEW n \in Nat, n \in T PROVE n + 1 \in T
  <2> SUFFICES ASSUME n + 1 \in 1..N PROVE p[n + 1] = n + 1
    OBVIOUS
  <2>1. PICK q \in 1..Len(s) : q = p[n + 1] /\ q \in S
    BY <1>1, <1>2, <1>3
  <2>2. q > n
    <3>1. CASE n = 0
      BY <3>1
    <3>2. CASE n # 0
      <4>1. n \in 1..N /\ n < n + 1
        BY <3>2
      <4>2. p[n] = n
        BY <1>5, <4>1
      <4>3. p[n] < p[n + 1]
        BY <1>1, <1>2, <4>1
      <4> QED
        BY <2>1, <4>2, <4>3
    <3> QED
      BY <3>1, <3>2
  <2>3. n + 1 \in 1..q /\ n + 1 \in 1..Len(s)
    BY <2>1, <2>2
  <2>4. n + 1 \in S
    BY <2>1, <2>3
  <2>5. PICK k \in 1..N : p[k] = n + 1
    BY <1>1, <1>2, <2>3, <2>4
  <2>6. CASE k < n + 1
    <3>1. n \in 1..N /\ k <= n
      BY <2>6
    <3>2. p[n] = n
      BY <1>5, <3>1
    <3>3. k < n => p[k] < p[n]
      BY <1>1, <1>2, <3>1
    <3> QED
      BY <2>5, <3>1, <3>2, <3>3
  <2>7. CASE k > n + 1
    <3>1. p[n + 1] < p[k]
      BY <1>1, <1>2, <2>7
    <3> QED
      BY <2>1, <2>2, <2>5, <3>1
  <2>8. CASE k = n + 1
    BY <2>5, <2>8
  <2> QED
    BY <2>6, <2>7, <2>8
<1> HIDE DEF T
<1>6. Nat \subseteq T
  BY <1>4, <1>5, NatSetInduction
<1> QED
  BY <1>2, <1>6 DEF T

(* What never grows from one entry to the next never grows. *)
LEMMA NeverGrows ==
  ASSUME NEW n \in Nat, NEW f, \A i \in 1..n : f[i] \in Int,
         \A i \in 2..n : f[i] <= f[i - 1]
  PROVE  \A i \in 1..n : \A k \in 1..i : f[i] <= f[k]
<1> DEFINE T == {m \in Nat : m \in 1..n => \A k \in 1..m : f[m] <= f[k]}
<1>1. 0 \in T
  OBVIOUS
<1>2. ASSUME NEW m \in Nat, m \in T PROVE m + 1 \in T
  <2> SUFFICES ASSUME m + 1 \in 1..n, NEW k \in 1..(m + 1) PROVE f[m + 1] <= f[k]
    OBVIOUS
  <2>1. CASE k = m + 1
    BY <2>1
  <2>2. CASE k # m + 1
    <3>1. m \in 1..n /\ k \in 1..m /\ m + 1 \in 2..n /\ (m + 1) - 1 = m
      BY <2>2
    <3>2. f[m] <= f[k] /\ f[m + 1] <= f[m]
      BY <1>2, <3>1
    <3>3. f[m] \in Int /\ f[k] \in Int /\ f[m + 1] \in Int
      BY <3>1
    <3> QED
      BY <3>2, <3>3
  <2> QED
    BY <2>1, <2>2
<1> HIDE DEF T
<1>3. Nat \subseteq T
  BY <1>1, <1>2, NatSetInduction
<1> QED
  BY <1>3 DEF T

(* The points of the series stand at their entries when no entry has more metrics
   than the one before it, and only then. *)
LEMMA PointsStand ==
  ASSUME NEW h \in Seq(Past), h # <<>>
  PROVE  (\A j \in DOMAIN Series(h) : \A n \in DOMAIN Series(h)[j] : Series(h)[j][n] = n)
           <=> \A i \in 2..Len(h) : Len(h[i].perf_data) <= Len(h[i - 1].perf_data)
<1>1. PICK N \in Nat : N = Len(h)
  OBVIOUS
<1>2. N # 0 /\ DOMAIN h = 1..N
  BY <1>1, EmptySeq
<1>3. PICK f : f = [i \in 1..N |-> Len(h[i].perf_data)]
  OBVIOUS
<1>4. \A i \in 1..N : f[i] = Len(h[i].perf_data) /\ f[i] \in Nat
  <2>1. \A i \in 1..N : h[i] \in Past
    BY <1>2
  <2>2. \A i \in 1..N : Len(h[i].perf_data) \in Nat
    BY <2>1, LenProperties DEF Past
  <2> QED
    BY <1>3, <2>2
<1>5. PICK F : F = {Len(h[i].perf_data) : i \in DOMAIN h}
  OBVIOUS
<1>6. F = {f[i] : i \in 1..N}
  BY <1>2, <1>4, <1>5
<1>7. PICK M \in Nat : M = Max(F) /\ \A i \in 1..N : f[i] <= M
  <2>1. PICK b \in Nat : \A i \in 1..N : f[i] <= b
    BY <1>4, EntriesBounded
  <2>2. \A i \in 1..N : f[i] \in 0..b
    BY <1>4, <2>1
  <2>3. F \in SUBSET (0..b)
    BY <1>6, <2>2
  <2>4. F # {}
    <3>1. 1 \in 1..N
      BY <1>2
    <3> QED
      BY <1>6, <3>1
  <2>5. Max(F) \in F /\ \A m \in F : m <= Max(F)
    BY <2>3, <2>4, MaxIn
  <2>6. Max(F) \in Nat
    <3>1. F \subseteq Nat
      BY <1>4, <1>6
    <3> QED
      BY <2>5, <3>1
  <2>7. \A i \in 1..N : f[i] <= Max(F)
    BY <1>6, <2>5
  <2> QED
    BY <2>6, <2>7
<1>8. PICK has : has = [j \in 1..M |-> {i \in DOMAIN h : HasMetric(h[i], j)}]
  OBVIOUS
<1>9. \A j \in 1..M : \A i : i \in has[j] <=> i \in 1..N /\ f[i] >= j
  BY <1>2, <1>4, <1>8 DEF HasMetric
<1>10. DOMAIN Series(h) = 1..M /\ \A j \in 1..M : Series(h)[j] = Places(h, has[j])
  BY <1>5, <1>7, <1>8 DEF Series
<1>11. ASSUME \A i \in 2..N : f[i] <= f[i - 1], NEW j \in 1..M
       PROVE  \A n \in DOMAIN Places(h, has[j]) : Places(h, has[j])[n] = n
  <2>1. \A i \in 1..N : \A k \in 1..i : f[i] <= f[k]
    <3>1. \A i \in 1..N : f[i] \in Int
      BY <1>4
    <3> QED
      BY <1>11, <3>1, NeverGrows
  <2>2. ASSUME NEW i \in 1..N, i \in has[j], NEW k \in 1..i PROVE k \in has[j]
    <3>1. f[i] >= j /\ f[i] <= f[k] /\ k \in 1..N
      BY <1>9, <2>1, <2>2
    <3>2. f[k] >= j
      BY <1>4, <3>1
    <3> QED
      BY <1>9, <3>1, <3>2
  <2>3. PICK p : p = Places(h, has[j])
    OBVIOUS
  <2>4. \A n \in DOMAIN p : p[n] = n
    BY <1>1, <2>2, <2>3, PlacesInPlace
  <2> QED
    BY <2>3, <2>4
<1>12. ASSUME NEW i \in 2..N, f[i] > f[i - 1]
       PROVE  \E j \in 1..M : \E n \in DOMAIN Places(h, has[j]) : Places(h, has[j])[n] # n
  <2>1. i \in 1..N /\ i - 1 \in 1..N
    OBVIOUS
  <2>2. PICK j \in 1..M : j = f[i]
    <3>1. f[i] \in 1..M
      BY <1>4, <1>7, <1>12, <2>1
    <3> QED
      BY <3>1
  <2>3. i \in has[j] /\ i - 1 \notin has[j]
    BY <1>4, <1>9, <1>12, <2>1, <2>2
  <2>4. PICK p : p = Places(h, has[j])
    OBVIOUS
  <2>5. /\ p \in Seq(1..N)
        /\ \A k \in DOMAIN p : p[k] \in has[j]
        /\ \A m \in 1..N : m \in has[j] => \E k \in DOMAIN p : p[k] = m
    BY <1>1, <2>4, PlacesAscend
  <2>6. PICK k \in DOMAIN p : p[k] = i
    BY <2>1, <2>3, <2>5
  <2>7. \E n \in DOMAIN p : p[n] # n
    <3>1. CASE k # i
      BY <2>6, <3>1
    <3>2. CASE k = i
      <4>1. i - 1 \in DOMAIN p
        BY <2>5, <2>6, <3>2
      <4>2. p[i - 1] # i - 1
        BY <2>3, <2>5, <4>1
      <4> QED
        BY <4>1, <4>2
    <3> QED
      BY <3>1, <3>2
  <2> QED
    BY <2>4, <2>7
<1>13. (\A i \in 2..N : f[i] <= f[i - 1])
         <=> \A j \in 1..M : \A n \in DOMAIN Places(h, has[j]) : Places(h, has[j])[n] = n
  <2>1. ASSUME \A j \in 1..M : \A n \in DOMAIN Places(h, has[j]) : Places(h, has[j])[n] = n,
               NEW i \in 2..N
        PROVE  f[i] <= f[i - 1]
    <3>1. ~(f[i] > f[i - 1])
      BY <1>12, <2>1, Zenon
    <3>2. f[i] \in Nat /\ f[i - 1] \in Nat
      <4>1. i \in 1..N /\ i - 1 \in 1..N
        OBVIOUS
      <4> QED
        BY <1>4, <4>1
    <3> QED
      BY <3>1, <3>2
  <2> QED
    BY <1>11, <2>1, Zenon
<1>14. (\A i \in 2..N : f[i] <= f[i - 1])
         <=> \A i \in 2..Len(h) : Len(h[i].perf_data) <= Len(h[i - 1].perf_data)
  <2>1. \A i \in 2..N : i \in 1..N /\ i - 1 \in 1..N
    OBVIOUS
  <2> QED
    BY <1>1, <1>4, <2>1
<1>15. (\A j \in DOMAIN Series(h) : \A n \in DOMAIN Series(h)[j] : Series(h)[j][n] = n)
         <=> \A j \in 1..M : \A n \in DOMAIN Places(h, has[j]) : Places(h, has[j])[n] = n
  BY <1>10, Zenon
<1> QED
  BY <1>13, <1>14, <1>15, Zenon

(* The histories events have are none of them empty. *)
LEMMA HistoriesTyped ==
  ASSUME DataTyped, HistoryInv, NEW h \in Histories
  PROVE  h \in Seq(Past) /\ h # <<>> /\ \A now \in Clock(h) : now \in Nat
<1>1. PICK k \in Services : Known(k) /\ h = servicesLastStates[k].historicData
  BY DEF Histories, HistoricData
<1>2. servicesLastStates[k] \in Event
  BY <1>1 DEF DataTyped, Known
<1>3. h \in Seq(Past)
  BY <1>1, <1>2 DEF Event
<1>4. Len(h) \in 1..MaxHistoricData
  BY <1>1 DEF HistoryInv, Leads, Known
<1>5. h # <<>>
  BY <1>4
<1>6. \A now \in Clock(h) : now \in Nat
  BY DEF Clock
<1> QED
  BY <1>3, <1>5, <1>6

(* A point of the performance chart stands at the entry it was measured in exactly
   when no entry has more metrics than the one before it: renderHistoricGraph() of
   EventPerformanceGraph.js leaves no gap for a metric that an entry lacks. *)
THEOREM PointsAlwaysKeepTheirTime == Spec => []PointsKeepTheirTime
<1>1. DetailsInv /\ HistoryInv => PointsKeepTheirTime
  <2> SUFFICES ASSUME DataTyped, HistoryInv PROVE PointsKeepTheirTime
    BY DEF DetailsInv
  <2>1. ASSUME NEW h \in Histories
        PROVE  h \in Seq(Past) /\ h # <<>>
    BY HistoriesTyped
  <2> QED
    BY <2>1, PointsStand, Zenon DEF PointsKeepTheirTime
<1> QED
  BY <1>1, DetailsInvAlways, HistoryInvAlways, PTL

-----------------------------------------------------------------------------
(* The time of each state. *)

(* Where the interval of each entry ends: at the next one, the last at `end'. *)
Ends(h, end) == [i \in 1..Len(h) |-> Until(h, i, end)]

Time(h) == [i \in 1..Len(h) |-> h[i].timestamp]

Code(h) == [i \in 1..Len(h) |-> h[i].return_code]

(* The times and codes of a history, and how its intervals hang together. *)
LEMMA Intervals ==
  ASSUME NEW h \in Seq(Past), h # <<>>, NEW end \in Nat
  PROVE  /\ Len(h) \in Nat \ {0} /\ DOMAIN h = 1..Len(h) /\ Last(h) = h[Len(h)]
         /\ \A i \in 1..Len(h) : /\ Time(h)[i] = h[i].timestamp /\ Time(h)[i] \in Nat
                                 /\ Code(h)[i] = h[i].return_code /\ Code(h)[i] \in Int
                                 /\ Ends(h, end)[i] = Until(h, i, end)
                                 /\ Ends(h, end)[i] \in Nat
                                 /\ i # Len(h) => Ends(h, end)[i] = Time(h)[i + 1]
         /\ Ends(h, end)[Len(h)] = end
<1>1. PICK N \in Nat : N = Len(h)
  OBVIOUS
<1>2. N # 0 /\ DOMAIN h = 1..N /\ Last(h) = h[N]
  BY <1>1, EmptySeq DEF Last
<1>3. \A i \in 1..N : h[i].timestamp \in Nat /\ h[i].return_code \in Int
  <2>1. \A i \in 1..N : h[i] \in Past
    BY <1>2
  <2> QED
    BY <2>1 DEF Past
<1>4. \A i \in 1..N : Time(h)[i] = h[i].timestamp /\ Code(h)[i] = h[i].return_code
                      /\ Ends(h, end)[i] = Until(h, i, end)
  BY <1>1 DEF Time, Code, Ends
<1>5. ASSUME NEW i \in 1..N
      PROVE  Until(h, i, end) \in Nat /\ (i # N => Until(h, i, end) = Time(h)[i + 1])
  <2>1. CASE i = N
    BY <1>1, <2>1 DEF Until
  <2>2. CASE i # N
    <3>1. i + 1 \in 1..N
      BY <2>2
    <3>2. Until(h, i, end) = h[i + 1].timestamp
      BY <1>1, <2>2 DEF Until
    <3> QED
      BY <1>3, <1>4, <3>1, <3>2
  <2> QED
    BY <2>1, <2>2
<1>6. Until(h, N, end) = end
  BY <1>1 DEF Until
<1>7. N \in 1..N
  BY <1>2
<1> QED
  BY <1>1, <1>2, <1>3, <1>4, <1>5, <1>6, <1>7

(* The seconds of the entries with code c, in the order of the entries. *)
Parts(h, end, c) ==
  [i \in DOMAIN h |-> IF h[i].return_code = c
                      THEN Until(h, i, end) - h[i].timestamp ELSE 0]

(* They are as many as the entries. *)
LEMMA PartsTyped ==
  ASSUME NEW h \in Seq(Past), h # <<>>, NEW end \in Nat, NEW c
  PROVE  /\ Parts(h, end, c) \in Seq(Int) /\ Len(Parts(h, end, c)) = Len(h)
         /\ \A i \in 1..Len(h) :
              Parts(h, end, c)[i] =
                IF Code(h)[i] = c THEN Ends(h, end)[i] - Time(h)[i] ELSE 0
<1>1. PICK N \in Nat : N = Len(h)
  OBVIOUS
<1>2. PICK T : T = Time(h)
  OBVIOUS
<1>3. PICK E : E = Ends(h, end)
  OBVIOUS
<1>4. /\ N # 0 /\ DOMAIN h = 1..N
      /\ \A i \in 1..N : /\ T[i] = h[i].timestamp /\ T[i] \in Nat
                         /\ Code(h)[i] = h[i].return_code
                         /\ E[i] = Until(h, i, end) /\ E[i] \in Nat
  BY <1>1, <1>2, <1>3, Intervals
<1>5. Parts(h, end, c) = [i \in 1..N |-> IF Code(h)[i] = c THEN E[i] - T[i] ELSE 0]
  BY <1>4 DEF Parts
<1>6. \A i \in 1..N : (IF Code(h)[i] = c THEN E[i] - T[i] ELSE 0) \in Int
  BY <1>4
<1> QED
  BY <1>1, <1>2, <1>3, <1>5, <1>6

(* The sums of the first of them. *)
Sums(f, h, end, c) ==
  /\ f \in [0..Len(h) -> Int] /\ f[0] = 0 /\ Total(Parts(h, end, c)) = f[Len(h)]
  /\ \A i \in 1..Len(h) :
       f[i] = f[i - 1] + (IF Code(h)[i] = c THEN Ends(h, end)[i] - Time(h)[i] ELSE 0)

(* There are such sums: Total() goes through them. *)
LEMMA SumsExist ==
  ASSUME NEW h \in Seq(Past), h # <<>>, NEW end \in Nat, NEW c
  PROVE  \E f : Sums(f, h, end, c)
<1>1. PICK s : s = Parts(h, end, c)
  OBVIOUS
<1>2. /\ s \in Seq(Int) /\ Len(s) = Len(h)
      /\ \A i \in 1..Len(h) :
           s[i] = IF Code(h)[i] = c THEN Ends(h, end)[i] - Time(h)[i] ELSE 0
  BY <1>1, PartsTyped
<1>3. PICK f \in [0..Len(s) -> Int] :
        /\ Total(s) = f[Len(s)] /\ f[0] = 0
        /\ \A i \in 1..Len(s) : f[i] = f[i - 1] + s[i]
  BY <1>2, TotalLoop
<1>4. Sums(f, h, end, c)
  BY <1>1, <1>2, <1>3 DEF Sums
<1> QED
  BY <1>4

(* The four times add up to the time from the first entry to the end. *)
LEMMA PartsAddUp ==
  ASSUME NEW h \in Seq(Past), h # <<>>, NEW end \in Nat,
         \A i \in DOMAIN h : h[i].return_code \in States
  PROVE  Total(Parts(h, end, 0)) + Total(Parts(h, end, 1)) + Total(Parts(h, end, 2))
           + Total(Parts(h, end, 3)) = end - h[1].timestamp
<1>1. PICK N \in Nat : N = Len(h)
  OBVIOUS
<1>2. PICK T : T = Time(h)
  OBVIOUS
<1>3. PICK E : E = Ends(h, end)
  OBVIOUS
<1>4. PICK C : C = Code(h)
  OBVIOUS
<1>5. /\ N # 0 /\ DOMAIN h = 1..N /\ T[1] = h[1].timestamp /\ E[N] = end
      /\ \A i \in 1..N : /\ T[i] \in Nat /\ E[i] \in Nat
                         /\ C[i] = h[i].return_code
                         /\ i # N => E[i] = T[i + 1]
  <2>1. N # 0
    BY <1>1, EmptySeq
  <2>2. 1 \in 1..N
    BY <2>1
  <2> QED
    BY <1>1, <1>2, <1>3, <1>4, <2>1, <2>2, Intervals
<1>6. \A i \in 1..N : C[i] \in States
  BY <1>5
<1>7. \A c : \E f : Sums(f, h, end, c)
  BY SumsExist
<1>8. PICK f0 : Sums(f0, h, end, 0)
  BY <1>7, Zenon
<1>9. PICK f1 : Sums(f1, h, end, 1)
  BY <1>7, Zenon
<1>10. PICK f2 : Sums(f2, h, end, 2)
  BY <1>7, Zenon
<1>11. PICK f3 : Sums(f3, h, end, 3)
  BY <1>7, Zenon
<1>12. PICK g : g = [n \in 0..N |-> f0[n] + f1[n] + f2[n] + f3[n]]
  OBVIOUS
<1>13. \A n \in 0..N : g[n] = f0[n] + f1[n] + f2[n] + f3[n] /\ g[n] \in Int
                       /\ f0[n] \in Int /\ f1[n] \in Int /\ f2[n] \in Int /\ f3[n] \in Int
  BY <1>1, <1>8, <1>9, <1>10, <1>11, <1>12 DEF Sums
<1>14. g[0] = 0
  <2>1. f0[0] = 0 /\ f1[0] = 0 /\ f2[0] = 0 /\ f3[0] = 0
    BY <1>8, <1>9, <1>10, <1>11 DEF Sums
  <2> QED
    BY <1>13, <2>1
<1>15. ASSUME NEW m \in 1..N PROVE g[m] = g[m - 1] + (E[m] - T[m])
  <2>1. PICK n \in 0..N : n = m - 1 /\ m \in 0..N
    OBVIOUS
  <2>2. PICK e \in Int : e = E[m] - T[m]
    BY <1>5
  <2>3. f0[m] = f0[n] + (IF C[m] = 0 THEN e ELSE 0)
    BY <1>1, <1>2, <1>3, <1>4, <1>8, <2>1, <2>2 DEF Sums
  <2>4. f1[m] = f1[n] + (IF C[m] = 1 THEN e ELSE 0)
    BY <1>1, <1>2, <1>3, <1>4, <1>9, <2>1, <2>2 DEF Sums
  <2>5. f2[m] = f2[n] + (IF C[m] = 2 THEN e ELSE 0)
    BY <1>1, <1>2, <1>3, <1>4, <1>10, <2>1, <2>2 DEF Sums
  <2>6. f3[m] = f3[n] + (IF C[m] = 3 THEN e ELSE 0)
    BY <1>1, <1>2, <1>3, <1>4, <1>11, <2>1, <2>2 DEF Sums
  <2>7. f0[n] \in Int /\ f1[n] \in Int /\ f2[n] \in Int /\ f3[n] \in Int
    BY <1>13
  <2>8. f0[m] + f1[m] + f2[m] + f3[m] = (f0[n] + f1[n] + f2[n] + f3[n]) + e
    <3>1. PICK c \in States : c = C[m]
      BY <1>6
    <3>2. PICK d0 \in Int, d1 \in Int, d2 \in Int, d3 \in Int :
            d0 = f0[n] /\ d1 = f1[n] /\ d2 = f2[n] /\ d3 = f3[n]
      BY <2>7
    <3>3. (d0 + (IF c = 0 THEN e ELSE 0)) + (d1 + (IF c = 1 THEN e ELSE 0))
            + (d2 + (IF c = 2 THEN e ELSE 0)) + (d3 + (IF c = 3 THEN e ELSE 0))
          = (d0 + d1 + d2 + d3) + e
      <4>1. c = 0 \/ c = 1 \/ c = 2 \/ c = 3
        BY DEF States, OK, UNKNOWN
      <4> QED
        BY <4>1
    <3> QED
      BY <2>3, <2>4, <2>5, <2>6, <3>1, <3>2, <3>3, Zenon
  <2>9. g[m] = f0[m] + f1[m] + f2[m] + f3[m] /\ g[n] = f0[n] + f1[n] + f2[n] + f3[n]
    BY <1>13, <2>1
  <2> QED
    BY <2>1, <2>2, <2>8, <2>9
<1> DEFINE S == {n \in Nat : n \in 1..N => g[n] = E[n] - T[1]}
<1>16. 0 \in S
  OBVIOUS
<1>17. ASSUME NEW n \in Nat, n \in S PROVE n + 1 \in S
  <2> SUFFICES ASSUME n + 1 \in 1..N PROVE g[n + 1] = E[n + 1] - T[1]
    OBVIOUS
  <2>1. PICK m \in 1..N : m = n + 1 /\ m - 1 = n
    OBVIOUS
  <2>2. PICK t \in Nat : t = T[1]
    <3>1. 1 \in 1..N
      BY <1>5
    <3> QED
      BY <1>5, <3>1
  <2>3. PICK a \in Nat : a = T[m]
    BY <1>5
  <2>4. PICK b \in Nat : b = E[m]
    BY <1>5
  <2>5. g[n] = a - t
    <3>1. CASE n = 0
      BY <1>14, <2>1, <2>2, <2>3, <3>1
    <3>2. CASE n # 0
      <4>1. n \in 1..N /\ n # N
        BY <2>1, <3>2
      <4>2. E[n] = a
        BY <1>5, <2>1, <2>3, <4>1
      <4>3. g[n] = E[n] - T[1]
        BY <1>17, <4>1
      <4> QED
        BY <2>2, <4>2, <4>3
    <3> QED
      BY <3>1, <3>2
  <2>6. g[m] = g[n] + (b - a)
    BY <1>15, <2>1, <2>3, <2>4
  <2> HIDE DEF S
  <2>7. g[m] = b - t
    BY <2>5, <2>6
  <2> QED
    BY <2>1, <2>2, <2>4, <2>7
<1> HIDE DEF S
<1>18. Nat \subseteq S
  BY <1>16, <1>17, NatSetInduction
<1>19. g[N] = E[N] - T[1]
  <2>1. N \in S /\ N \in 1..N
    BY <1>5, <1>18
  <2> QED
    BY <2>1 DEF S
<1>20. g[N] = f0[N] + f1[N] + f2[N] + f3[N]
  BY <1>13
<1>21. /\ Total(Parts(h, end, 0)) = f0[N] /\ Total(Parts(h, end, 1)) = f1[N]
       /\ Total(Parts(h, end, 2)) = f2[N] /\ Total(Parts(h, end, 3)) = f3[N]
  BY <1>1, <1>8, <1>9, <1>10, <1>11 DEF Sums
<1> QED
  BY <1>5, <1>19, <1>20, <1>21

(* The entry of a history that tells the state at t. *)
At(h, t) == Max({i \in DOMAIN h : h[i].timestamp <= t})

(* It is the last one that is not later than t. *)
LEMMA AtIs ==
  ASSUME NEW h \in Seq(Past), h # <<>>, NEW t \in Int, h[1].timestamp <= t
  PROVE  /\ At(h, t) \in 1..Len(h) /\ h[At(h, t)].timestamp <= t
         /\ \A i \in 1..Len(h) : h[i].timestamp <= t => i <= At(h, t)
<1>1. PICK N \in Nat : N = Len(h)
  OBVIOUS
<1>2. N # 0 /\ DOMAIN h = 1..N
  BY <1>1, EmptySeq
<1>3. PICK S : S = {i \in DOMAIN h : h[i].timestamp <= t}
  OBVIOUS
<1>4. S \in SUBSET (0..N) /\ S \subseteq 1..N /\ S # {}
  <2>1. 1 \in S
    BY <1>2, <1>3
  <2> QED
    BY <1>2, <1>3, <2>1
<1>5. PICK m : m = Max(S)
  OBVIOUS
<1>6. m \in S /\ \A i \in S : i <= m
  BY <1>4, <1>5, MaxIn
<1>7. At(h, t) = m
  BY <1>3, <1>5 DEF At
<1>8. m \in 1..N /\ h[m].timestamp <= t
  BY <1>2, <1>3, <1>6
<1>9. \A i \in 1..N : h[i].timestamp <= t => i <= m
  BY <1>2, <1>3, <1>6
<1> QED
  BY <1>1, <1>7, <1>8, <1>9

(* In the interval of an entry of a history that runs forward it is that entry. *)
LEMMA AtOnly ==
  ASSUME NEW h \in Seq(Past), h # <<>>, Forward(h), NEW t \in Int, NEW i \in 1..Len(h),
         h[i].timestamp <= t, i # Len(h) => t < h[i + 1].timestamp
  PROVE  At(h, t) = i
<1>1. PICK N \in Nat : N = Len(h)
  OBVIOUS
<1>2. N # 0 /\ DOMAIN h = 1..N
  BY <1>1, EmptySeq
<1>3. PICK S : S = {k \in DOMAIN h : h[k].timestamp <= t}
  OBVIOUS
<1>4. \A k \in 1..N : h[k].timestamp \in Int
  <2>1. \A k \in 1..N : h[k] \in Past
    BY <1>2
  <2> QED
    BY <2>1 DEF Past
<1>5. i \in S /\ S \in SUBSET Int
  BY <1>1, <1>2, <1>3
<1>6. ASSUME NEW k \in S PROVE k <= i
  <2>1. k \in 1..N /\ h[k].timestamp <= t
    BY <1>2, <1>3
  <2>2. CASE k > i
    <3>1. i # N /\ i + 1 \in 1..N /\ i + 1 <= k
      BY <1>1, <2>1, <2>2
    <3>2. t < h[i + 1].timestamp
      BY <1>1, <3>1
    <3>3. i + 1 < k => h[i + 1].timestamp <= h[k].timestamp
      BY <1>2, <2>1, <3>1 DEF Forward
    <3>4. i + 1 = k \/ i + 1 < k
      BY <2>1, <3>1
    <3>5. h[i + 1].timestamp <= h[k].timestamp
      BY <1>4, <2>1, <3>3, <3>4
    <3> QED
      BY <1>4, <2>1, <3>1, <3>2, <3>5
  <2> QED
    BY <1>1, <2>1, <2>2
<1>7. Max(S) = i
  BY <1>5, <1>6, MaxOnly
<1> QED
  BY <1>3, <1>7 DEF At

(* The seconds from a on, before e, in state c. *)
Seen(state, a, e, c) == {t \in a..(e - 1) : state[t] = c}

Stays(state, b, d, v) == \A t \in b..(d - 1) : state[t] = v

(* A stretch of seconds more, in one state v. *)
LEMMA StretchCounted ==
  ASSUME NEW a \in Int, NEW b \in Int, NEW d \in Int, a <= b, b <= d, NEW state,
         NEW c, NEW v, Stays(state, b, d, v)
  PROVE  Cardinality(Seen(state, a, d, c))
           = Cardinality(Seen(state, a, b, c)) + (IF v = c THEN d - b ELSE 0)
<1>9. PICK S : S = {t \in a..(b - 1) : state[t] = c}
  OBVIOUS
<1>1. IsFiniteSet(S)
  <2>1. S \subseteq a..(b - 1) /\ IsFiniteSet(a..(b - 1))
    <3>2. S \subseteq a..(b - 1)
      BY <1>9
    <3>1. b - 1 \in Int
      OBVIOUS
    <3> QED
      BY <3>1, <3>2, FS_Interval
  <2> QED
    BY <2>1, FS_Subset
<1>2. PICK B : B = {t \in a..(d - 1) : state[t] = c}
  OBVIOUS
<1>3. PICK I : I = b..(d - 1)
  OBVIOUS
<1>4. IsFiniteSet(I) /\ Cardinality(I) = d - b
  <2>1. PICK e \in Int : e = d - 1
    OBVIOUS
  <2>2. IsFiniteSet(b..e) /\ Cardinality(b..e) = IF b > e THEN 0 ELSE e - b + 1
    BY FS_Interval
  <2> QED
    BY <1>3, <2>1, <2>2
<1>5. \A t : t \in a..(d - 1) <=> t \in a..(b - 1) \/ t \in I
  BY <1>3
<1>6. \A t : ~(t \in S /\ t \in I)
  BY <1>3, <1>9
<1>7. Cardinality(S) \in Nat /\ Cardinality({}) = 0
  BY <1>1, FS_CardinalityType, FS_EmptySet
<1>8. Cardinality(B) = Cardinality(S) + (IF v = c THEN d - b ELSE 0)
  <2>1. CASE v = c
    <3>1. B = S \cup I /\ S \cap I = {}
      <4>1. \A t : t \in B <=> t \in S \/ t \in I
        BY <1>2, <1>3, <1>5, <1>9, <2>1 DEF Stays
      <4> QED
        BY <1>6, <4>1
    <3>2. Cardinality(S \cup I) = Cardinality(S) + Cardinality(I) - Cardinality(S \cap I)
      BY <1>1, <1>4, FS_Union
    <3>3. PICK p \in Nat : p = Cardinality(S)
      BY <1>7
    <3>4. PICK q \in Int : q = Cardinality(I) /\ q = d - b
      BY <1>4
    <3>5. Cardinality(B) = p + q - 0
      BY <1>7, <3>1, <3>2, <3>3, <3>4
    <3>6. Cardinality(B) = p + q
      BY <3>5
    <3> QED
      BY <2>1, <3>3, <3>4, <3>6
  <2>2. CASE v # c
    <3>1. B = S
      <4>1. \A t : t \in B <=> t \in S
        BY <1>2, <1>3, <1>5, <1>9, <2>2 DEF Stays
      <4> QED
        BY <4>1
    <3> QED
      BY <1>7, <2>2, <3>1
  <2> QED
    BY <2>1, <2>2
<1> QED
  BY <1>2, <1>8, <1>9 DEF Seen

(* The sum of the seconds of the entries with code c is the seconds at which the
   state was c, when time runs forward and has not ended before the last entry. *)
LEMMA PartsAreSeconds ==
  ASSUME NEW h \in Seq(Past), h # <<>>, Forward(h), NEW end \in Nat,
         Last(h).timestamp <= end, NEW c
  PROVE  Total(Parts(h, end, c)) = SecondsIn(c, h, end)
<1>1. PICK N \in Nat : N = Len(h)
  OBVIOUS
<1>2. PICK T : T = Time(h)
  OBVIOUS
<1>3. PICK E : E = Ends(h, end)
  OBVIOUS
<1>4. PICK C : C = Code(h)
  OBVIOUS
<1>5. /\ N # 0 /\ DOMAIN h = 1..N /\ T[1] = h[1].timestamp /\ E[N] = end
      /\ Last(h) = h[N]
      /\ \A i \in 1..N : /\ T[i] \in Nat /\ E[i] \in Nat
                         /\ T[i] = h[i].timestamp
                         /\ C[i] = h[i].return_code
                         /\ i # N => E[i] = T[i + 1]
  <2>1. N # 0
    BY <1>1, EmptySeq
  <2>2. 1 \in 1..N
    BY <2>1
  <2> QED
    BY <1>1, <1>2, <1>3, <1>4, <2>1, <2>2, Intervals
<1>6. 1 \in 1..N /\ N \in 1..N
  BY <1>5
<1>7. PICK f : Sums(f, h, end, c)
  BY SumsExist
<1>8. PICK a \in Nat : a = T[1]
  BY <1>5, <1>6
<1>9. \A i \in 1..N : a <= T[i] /\ T[i] <= E[i]
  <2>1. ASSUME NEW i \in 1..N, NEW j \in 1..N, i < j PROVE T[i] <= T[j]
    <3>1. h[i].timestamp <= h[j].timestamp
      <4>1. i \in DOMAIN h /\ j \in DOMAIN h
        BY <1>5
      <4> QED
        BY <2>1, <4>1 DEF Forward
    <3> QED
      BY <1>5, <3>1
  <2>2. ASSUME NEW i \in 1..N PROVE a <= T[i] /\ T[i] <= E[i]
    <3>1. a <= T[i]
      <4>1. i = 1 \/ 1 < i
        OBVIOUS
      <4>2. 1 < i => T[1] <= T[i]
        BY <1>6, <2>1
      <4> QED
        BY <1>5, <1>8, <4>1, <4>2
    <3>2. CASE i = N
      BY <1>5, <3>1, <3>2
    <3>3. CASE i # N
      <4>1. i + 1 \in 1..N /\ i < i + 1
        BY <3>3
      <4>2. T[i] <= T[i + 1]
        BY <2>1, <4>1
      <4> QED
        BY <1>5, <3>1, <3>3, <4>2
    <3> QED
      BY <3>2, <3>3
  <2> QED
    BY <2>2
<1>10. PICK state : state = [t \in Int |-> StateAt(h, t)]
  OBVIOUS
<1>11. ASSUME NEW i \in 1..N PROVE \A t \in T[i]..(E[i] - 1) : state[t] = C[i]
  <2>1. T[i] \in Int /\ E[i] \in Int
    BY <1>5
  <2> SUFFICES ASSUME NEW t \in T[i]..(E[i] - 1) PROVE state[t] = C[i]
    OBVIOUS
  <2>2. t \in Int /\ T[i] <= t /\ t < E[i]
    BY <2>1
  <2>3. i # N => t < h[i + 1].timestamp
    <3>1. i # N => i + 1 \in 1..N
      OBVIOUS
    <3> QED
      BY <1>5, <2>2, <3>1
  <2>4. At(h, t) = i
    BY <1>1, <1>5, <2>2, <2>3, AtOnly
  <2>5. StateAt(h, t) = h[At(h, t)].return_code
    BY DEF StateAt, At
  <2> QED
    BY <1>5, <1>10, <2>2, <2>4, <2>5
<1>12. PICK B : B = [n \in 0..N |-> IF n = 0 THEN a ELSE E[n]]
  OBVIOUS
<1>13. B[0] = a /\ \A n \in 1..N : B[n] = E[n] /\ B[n - 1] = T[n]
  <2>1. B[0] = a
    BY <1>12
  <2>2. ASSUME NEW n \in 1..N PROVE B[n] = E[n] /\ B[n - 1] = T[n]
    <3>1. CASE n = 1
      BY <1>8, <1>12, <3>1
    <3>2. CASE n # 1
      <4>1. n - 1 \in 1..N /\ n - 1 # N /\ (n - 1) + 1 = n /\ n - 1 \in 0..N /\ n - 1 # 0
        BY <3>2
      <4>2. E[n - 1] = T[n]
        BY <1>5, <4>1
      <4> QED
        BY <1>12, <4>1, <4>2
    <3> QED
      BY <3>1, <3>2
  <2> QED
    BY <2>1, <2>2
<1> DEFINE S == {n \in Nat : n \in 0..N => f[n] = Cardinality(Seen(state, a, B[n], c))}
<1>14. 0 \in S
  <2>1. f[0] = 0
    BY <1>7 DEF Sums
  <2>2. Seen(state, a, B[0], c) = {}
    BY <1>13 DEF Seen
  <2> QED
    BY <2>1, <2>2, FS_EmptySet
<1>15. ASSUME NEW n \in Nat, n \in S PROVE n + 1 \in S
  <2> SUFFICES ASSUME n + 1 \in 0..N PROVE f[n + 1] = Cardinality(Seen(state, a, B[n + 1], c))
    OBVIOUS
  <2>1. PICK m \in 1..N : m = n + 1 /\ m - 1 = n /\ n \in 0..N
    OBVIOUS
  <2>2. PICK b \in Nat : b = T[m] /\ a <= b
    BY <1>5, <1>9
  <2>3. PICK d \in Nat : d = E[m] /\ b <= d
    BY <1>5, <1>9, <2>2
  <2>4. PICK v : v = C[m] /\ Stays(state, b, d, v)
    BY <1>11, <2>2, <2>3 DEF Stays
  <2>5. B[n] = b /\ B[m] = d
    BY <1>13, <2>1, <2>2, <2>3
  <2>7. Cardinality(Seen(state, a, d, c))
          = Cardinality(Seen(state, a, b, c)) + (IF v = c THEN d - b ELSE 0)
    <3>1. a \in Int /\ b \in Int /\ d \in Int /\ a <= b /\ b <= d
      BY <2>2, <2>3
    <3> QED
      BY <2>4, <3>1, StretchCounted
  <2>8. f[n] = Cardinality(Seen(state, a, b, c))
    BY <1>15, <2>1, <2>5
  <2>9. f[m] = f[n] + (IF v = c THEN d - b ELSE 0)
    BY <1>1, <1>2, <1>3, <1>4, <1>7, <2>1, <2>2, <2>3, <2>4 DEF Sums
  <2> HIDE DEF S
  <2>10. f[m] = Cardinality(Seen(state, a, B[m], c))
    BY <2>5, <2>7, <2>8, <2>9
  <2> QED
    BY <2>1, <2>10
<1> HIDE DEF S
<1>16. Nat \subseteq S
  BY <1>14, <1>15, NatSetInduction
<1>17. f[N] = Cardinality(Seen(state, a, B[N], c))
  <2>1. N \in S /\ N \in 0..N
    BY <1>16
  <2> QED
    BY <2>1 DEF S
<1>18. B[N] = end
  BY <1>5, <1>6, <1>13
<1>19. SecondsIn(c, h, end) = Cardinality({t \in a..(end - 1) : StateAt(h, t) = c})
  BY <1>5, <1>8 DEF SecondsIn
<1>20. Seen(state, a, end, c) = {t \in a..(end - 1) : StateAt(h, t) = c}
  <2>1. \A t \in a..(end - 1) : state[t] = StateAt(h, t)
    BY <1>10
  <2> QED
    BY <2>1 DEF Seen
<1>21. Total(Parts(h, end, c)) = f[N]
  BY <1>1, <1>7 DEF Sums
<1> QED
  BY <1>17, <1>18, <1>19, <1>20, <1>21

(* The time of each state is the seconds the service was in it, and the four make
   up the time there is: sumTimePerState() of EventAvailOverviewGraph.js, for every
   history an event comes to have and wherever the phone's clock stands.  A history
   sent again may run backwards: then the sum is right. *)
THEOREM OverviewAlwaysExact == Spec => []OverviewExact
<1>1. ASSUME NEW h \in Seq(Past), h # <<>>, NEW now \in Nat, ~Throws(Overview, h),
             NEW time, time = TimePerState(h, now), NEW end, end = OverviewEnd(h, now)
      PROVE  /\ Forward(h) => \A c \in States : time[c] = SecondsIn(c, h, end)
             /\ time[0] + time[1] + time[2] + time[3] = end - h[1].timestamp
  <2>1. Last(h).timestamp \in Nat
    BY <1>1, LastIn DEF Past
  <2>2. end \in Nat /\ Last(h).timestamp <= end
    BY <1>1, <2>1 DEF OverviewEnd
  <2>3. \A c \in States : time[c] = Total(Parts(h, end, c))
    BY <1>1 DEF TimePerState, Parts
  <2>4. ASSUME Forward(h), NEW c \in States PROVE time[c] = SecondsIn(c, h, end)
    BY <1>1, <2>2, <2>3, <2>4, PartsAreSeconds
  <2>5. \A i \in DOMAIN h : h[i].return_code \in States
    BY <1>1 DEF Throws
  <2>6. 0 \in States /\ 1 \in States /\ 2 \in States /\ 3 \in States
    BY DEF States, OK, UNKNOWN
  <2>7. Total(Parts(h, end, 0)) + Total(Parts(h, end, 1)) + Total(Parts(h, end, 2))
           + Total(Parts(h, end, 3)) = end - h[1].timestamp
    BY <1>1, <2>2, <2>5, PartsAddUp
  <2> QED
    BY <2>3, <2>4, <2>6, <2>7
<1>2. DetailsInv /\ HistoryInv => OverviewExact
  <2> SUFFICES ASSUME DataTyped, HistoryInv, NEW h \in Histories, NEW now \in Clock(h),
                      ~Throws(Overview, h)
               PROVE  LET time == TimePerState(h, now)
                          end == OverviewEnd(h, now)
                      IN  /\ Forward(h) => \A c \in States : time[c] = SecondsIn(c, h, end)
                          /\ time[0] + time[1] + time[2] + time[3] = end - h[1].timestamp
    BY Zenon DEF DetailsInv, OverviewExact
  <2>1. h \in Seq(Past) /\ h # <<>> /\ now \in Nat
    BY HistoriesTyped
  <2> QED
    BY <1>1, <2>1
<1> QED
  BY <1>1, <1>2, DetailsInvAlways, HistoryInvAlways, PTL

-----------------------------------------------------------------------------
(* The boxes of the evolution chart. *)

(* A product of a sum. *)
LEMMA Distributes ==
  ASSUME NEW a \in Int, NEW b \in Int, NEW d \in Int
  PROVE  (a + b) * d = a * d + b * d /\ a * d \in Int
OBVIOUS

(* Factors keep the order, and give it back. *)
LEMMA FactorsOrder ==
  ASSUME NEW a \in Int, NEW b \in Int, NEW d \in Nat \ {0}
  PROVE  /\ a <= b => a * d <= b * d
         /\ a * d <= b * d => a <= b
         /\ a * d < b * d => a < b
<1>1. PICK e \in Int : e = b - a
  OBVIOUS
<1>2. b * d = a * d + e * d /\ e * d \in Int /\ a * d \in Int
  <2>1. b = a + e
    BY <1>1
  <2> QED
    BY <2>1, Distributes
<1>3. e >= 0 => e * d >= 0
  OBVIOUS
<1>4. e < 0 => e * d < 0
  OBVIOUS
<1>5. e = 0 => e * d = 0
  OBVIOUS
<1> QED
  BY <1>1, <1>2, <1>3, <1>4, <1>5

(* Math.floor() of a quotient loses less than the divisor. *)
LEMMA FloorBounds ==
  ASSUME NEW x0 \in Nat, NEW d \in Nat \ {0}, NEW q, q = Floor(x0, d)
  PROVE  q \in Nat /\ q * d <= x0 /\ x0 < q * d + d
<1>1. q = x0 \div d
  BY DEF Floor
<1> QED
  BY <1>1

StartPlaces(h) == Places(h, StateChanges(h))

(* The first box starts with the first entry, and the others in the order of theirs. *)
LEMMA StartsOf ==
  ASSUME NEW h \in Seq(Past), h # <<>>
  PROVE  /\ Starts(h) \in Seq(Past) /\ Starts(h) # <<>> /\ Starts(h)[1] = h[1]
         /\ StartPlaces(h)[1] = 1
         /\ \A j \in 1..Len(Starts(h)) :
              /\ StartPlaces(h)[j] \in 1..Len(h) /\ StartPlaces(h)[j] \in StateChanges(h)
              /\ Starts(h)[j] = h[StartPlaces(h)[j]]
         /\ \A j, l \in 1..Len(Starts(h)) : j < l => StartPlaces(h)[j] < StartPlaces(h)[l]
         /\ \A i \in 1..Len(h) : i \in StateChanges(h) =>
              \E j \in 1..Len(Starts(h)) : StartPlaces(h)[j] = i
<1>1. PICK N \in Nat : N = Len(h)
  OBVIOUS
<1>2. N # 0 /\ DOMAIN h = 1..N
  BY <1>1, EmptySeq
<1>3. PICK S : S = StateChanges(h)
  OBVIOUS
<1>4. PICK p : p = Places(h, S)
  OBVIOUS
<1>5. /\ p \in Seq(1..N)
      /\ \A k \in DOMAIN p : p[k] \in S
      /\ \A i \in 1..N : i \in S => \E k \in DOMAIN p : p[k] = i
      /\ \A k, l \in DOMAIN p : k < l => p[k] < p[l]
  BY <1>1, <1>4, PlacesAscend
<1>6. PICK s : s = Starts(h)
  OBVIOUS
<1>7. /\ s \in Seq(Past) /\ Len(s) = Len(p) /\ DOMAIN s = 1..Len(s)
      /\ \A j \in DOMAIN s : s[j] = h[p[j]]
  BY <1>3, <1>4, <1>6, StartsTyped
<1>8. PICK n \in Nat : n = Len(s) /\ DOMAIN p = 1..n
  BY <1>5, <1>7, LenProperties
<1>9. \A j \in 1..n : p[j] \in 1..N
  BY <1>5, <1>8
<1>10. p[1] = 1 /\ 1 \in 1..n
  <2>1. 1 \in S /\ 1 \in 1..N
    BY <1>2, <1>3 DEF StateChanges
  <2>2. PICK k \in 1..n : p[k] = 1
    BY <1>5, <1>8, <2>1
  <2>3. 1 \in 1..n
    OBVIOUS
  <2>4. p[1] \in 1..N
    BY <1>9, <2>3
  <2>5. 1 < k => p[1] < p[k]
    BY <1>5, <1>8, <2>3
  <2> QED
    BY <2>2, <2>3, <2>4, <2>5
<1>11. s # <<>> /\ s[1] = h[1]
  BY <1>7, <1>8, <1>10
<1> QED
  BY <1>1, <1>3, <1>4, <1>5, <1>6, <1>7, <1>8, <1>9, <1>10, <1>11 DEF StartPlaces

(* Time runs forward in the starts of the boxes as it does in the history. *)
LEMMA StartsForward ==
  ASSUME NEW h \in Seq(Past), h # <<>>, Forward(h)
  PROVE  Forward(Starts(h)) /\ Last(Starts(h)).timestamp <= Last(h).timestamp
<1>1. PICK N \in Nat : N = Len(h)
  OBVIOUS
<1>2. N # 0 /\ DOMAIN h = 1..N /\ Last(h) = h[N]
  BY <1>1, EmptySeq DEF Last
<1>3. PICK p : p = StartPlaces(h)
  OBVIOUS
<1>4. PICK s : s = Starts(h)
  OBVIOUS
<1>5. PICK n \in Nat : n = Len(s)
  BY <1>4, StartsTyped, LenProperties
<1>6. /\ s \in Seq(Past) /\ s # <<>>
      /\ \A j \in 1..n : p[j] \in 1..N /\ s[j] = h[p[j]]
      /\ \A j, l \in 1..n : j < l => p[j] < p[l]
  BY <1>1, <1>3, <1>4, <1>5, StartsOf
<1>7. n # 0 /\ DOMAIN s = 1..n /\ Last(s) = s[n]
  BY <1>5, <1>6, EmptySeq DEF Last
<1>8. \A i, j \in 1..N : i <= j => h[i].timestamp <= h[j].timestamp
  <2> SUFFICES ASSUME NEW i \in 1..N, NEW j \in 1..N, i <= j
               PROVE  h[i].timestamp <= h[j].timestamp
    OBVIOUS
  <2>1. h[i].timestamp \in Nat
    <3>1. h[i] \in Past
      BY <1>2
    <3> QED
      BY <3>1 DEF Past
  <2>2. CASE i = j
    BY <2>1, <2>2
  <2>3. CASE i < j
    BY <1>2, <2>3 DEF Forward
  <2> QED
    BY <2>2, <2>3
<1>9. Forward(s)
  <2> SUFFICES ASSUME NEW i \in DOMAIN s, NEW j \in DOMAIN s, i < j
               PROVE  s[i].timestamp <= s[j].timestamp
    BY DEF Forward
  <2>1. i \in 1..n /\ j \in 1..n
    BY <1>7
  <2>2. p[i] \in 1..N /\ p[j] \in 1..N /\ p[i] < p[j] /\ s[i] = h[p[i]] /\ s[j] = h[p[j]]
    BY <1>6, <2>1
  <2>3. p[i] <= p[j]
    BY <2>2
  <2> QED
    BY <1>8, <2>2, <2>3
<1>10. Last(s).timestamp <= Last(h).timestamp
  <2>1. n \in 1..n /\ N \in 1..N
    BY <1>2, <1>7
  <2>2. p[n] \in 1..N /\ s[n] = h[p[n]]
    BY <1>6, <2>1
  <2>3. p[n] <= N
    BY <2>2
  <2> QED
    BY <1>2, <1>7, <1>8, <2>1, <2>2, <2>3
<1> QED
  BY <1>4, <1>9, <1>10

(* l floors that add up to a, of parts that add up to u of D. *)
Between(a, u, l, D, W) == a * D <= u * W /\ u * W <= (a + l) * D

OneFloor(b, d, D, W) == b * D <= d * W /\ d * W < b * D + D

Below(a, u, l, D, W) == Between(a, u, l, D, W) /\ u * W < (a + l) * D

(* One part more. *)
LEMMA FloorStep ==
  ASSUME NEW a \in Int, NEW b \in Int, NEW u \in Int, NEW d \in Int, NEW l \in Nat,
         NEW D \in Int, NEW W \in Int, Between(a, u, l, D, W), OneFloor(b, d, D, W)
  PROVE  Below(a + b, u + d, l + 1, D, W)
<1>1. (a + b) * D = a * D + b * D /\ b * D \in Int /\ a * D \in Int
  BY Distributes
<1>2. (u + d) * W = u * W + d * W /\ d * W \in Int /\ u * W \in Int
  BY Distributes
<1>3. (a + b + (l + 1)) * D = (a + l) * D + (b * D + D) /\ (a + l) * D \in Int
  <2>1. PICK c \in Int : c = a + l
    OBVIOUS
  <2>2. PICK e \in Int : e = b + 1
    OBVIOUS
  <2>3. a + b + (l + 1) = c + e
    BY <2>1, <2>2
  <2>4. (c + e) * D = c * D + e * D /\ c * D \in Int
    BY Distributes
  <2>5. e * D = b * D + D
    BY <2>2
  <2> QED
    BY <2>1, <2>3, <2>4, <2>5
<1> QED
  BY <1>1, <1>2, <1>3 DEF Between, OneFloor, Below

(* T is in order from 1 to n + 1. *)
Ascends(T, n) ==
  /\ \A i \in 1..(n + 1) : T[i] \in Nat
  /\ \A i \in 1..n : T[i] <= T[i + 1]

Floors(q, T, n, D, W) == \A i \in 1..n : q[i] = Floor((T[i + 1] - T[i]) * W, D)

(* The sum of the floors of parts of W, which fall short of W by less than one each. *)
LEMMA FloorsFill ==
  ASSUME NEW n \in Nat \ {0}, NEW T, Ascends(T, n),
         NEW D \in Nat \ {0}, D = T[n + 1] - T[1], NEW W \in Nat,
         NEW q \in Seq(Int), Len(q) = n, Floors(q, T, n, D, W)
  PROVE  (\A i \in 1..n : q[i] \in Nat) /\ Total(q) \in (W - n + 1)..W
<1>10. /\ \A i \in 1..(n + 1) : T[i] \in Nat
       /\ \A i \in 1..n : T[i] <= T[i + 1] /\ q[i] = Floor((T[i + 1] - T[i]) * W, D)
  BY DEF Ascends, Floors
<1>1. ASSUME NEW j \in 1..n
      PROVE  /\ q[j] \in Nat /\ q[j] * D <= (T[j + 1] - T[j]) * W
             /\ (T[j + 1] - T[j]) * W < q[j] * D + D
  <2>1. PICK d \in Nat : d = T[j + 1] - T[j]
    <3>1. j \in 1..(n + 1) /\ j + 1 \in 1..(n + 1)
      OBVIOUS
    <3>2. T[j] \in Nat /\ T[j + 1] \in Nat /\ T[j] <= T[j + 1]
      BY <1>10, <3>1
    <3> QED
      BY <3>2
  <2>2. PICK a \in Nat : a = d * W
    OBVIOUS
  <2>3. q[j] = Floor(a, D)
    BY <1>10, <2>1, <2>2
  <2>4. q[j] \in Nat /\ q[j] * D <= a /\ a < q[j] * D + D
    BY <2>3, FloorBounds
  <2> QED
    BY <2>1, <2>2, <2>4
<1>2. PICK f \in [0..n -> Int] :
         /\ Total(q) = f[n] /\ f[0] = 0
         /\ \A i \in 1..n : f[i] = f[i - 1] + q[i]
  BY TotalLoop
<1>3. PICK t \in Nat : t = T[1]
  <2>1. 1 \in 1..(n + 1)
    OBVIOUS
  <2> QED
    BY <1>10, <2>1
<1> DEFINE S == {m \in Nat : m \in 0..n =>
                   /\ Between(f[m], T[m + 1] - t, m, D, W)
                   /\ m # 0 => Below(f[m], T[m + 1] - t, m, D, W)}
<1>4. 0 \in S
  <2>1. f[0] = 0 /\ T[0 + 1] - t = 0
    BY <1>2, <1>3
  <2>2. Between(0, 0, 0, D, W)
    BY DEF Between
  <2> QED
    BY <2>1, <2>2, Zenon
<1>5. ASSUME NEW l \in Nat, l \in S PROVE l + 1 \in S
  <2> SUFFICES ASSUME l + 1 \in 0..n
               PROVE  Below(f[l + 1], T[l + 1 + 1] - t, l + 1, D, W)
    BY DEF Below
  <2>1. l \in 0..n
    OBVIOUS
  <2>2. Between(f[l], T[l + 1] - t, l, D, W)
    BY <1>5, <2>1
  <2> HIDE DEF S
  <2>3. PICK m \in 1..n : m = l + 1
    OBVIOUS
  <2>4. PICK k \in 1..(n + 1) : k = m + 1
    OBVIOUS
  <2>5. m \in 1..(n + 1) /\ m - 1 = l /\ l + 1 + 1 = k
    BY <2>3, <2>4
  <2>6. PICK tm \in Nat : tm = T[m]
    BY <1>10, <2>5
  <2>7. PICK tk \in Nat : tk = T[k]
    BY <1>10
  <2>8. PICK a \in Int : a = f[l]
    BY <2>1
  <2>9. PICK b \in Int : b = q[m]
    BY <1>1
  <2>10. PICK u \in Int : u = tm - t
    OBVIOUS
  <2>11. PICK d \in Int : d = tk - tm
    OBVIOUS
  <2>12. f[m] = a + b /\ tk - t = u + d
    BY <1>2, <2>5, <2>8, <2>9, <2>10, <2>11
  <2>13. OneFloor(b, d, D, W)
    BY <1>1, <2>4, <2>6, <2>7, <2>9, <2>11 DEF OneFloor
  <2>14. Between(a, u, l, D, W)
    BY <2>2, <2>3, <2>6, <2>8, <2>10
  <2>15. /\ D \in Int /\ W \in Int /\ a \in Int /\ b \in Int /\ u \in Int /\ d \in Int
         /\ l \in Nat
    OBVIOUS
  <2>16. Below(a + b, u + d, l + 1, D, W)
    BY <2>13, <2>14, <2>15, FloorStep
  <2> QED
    BY <2>3, <2>5, <2>7, <2>12, <2>16, Zenon
<1> HIDE DEF S
<1>6. Nat \subseteq S
  BY <1>4, <1>5, NatSetInduction
<1>7. f[n] * D <= D * W /\ D * W < (f[n] + n) * D
  <2>1. n \in S /\ n \in 0..n
    BY <1>6
  <2>2. T[n + 1] - t = D
    BY <1>3
  <2>3. Below(f[n], T[n + 1] - t, n, D, W)
    BY <2>1 DEF S
  <2> QED
    BY <2>2, <2>3 DEF Below, Between
<1>8. f[n] <= W /\ W < f[n] + n /\ f[n] \in Int
  <2>1. PICK a \in Int : a = f[n]
    OBVIOUS
  <2>2. PICK b \in Int : b = a + n
    OBVIOUS
  <2>3. D * W = W * D
    OBVIOUS
  <2>6. W \in Int
    OBVIOUS
  <2>4. a * D <= W * D => a <= W
    BY <2>6, FactorsOrder
  <2>5. W * D < b * D => W < b
    BY <2>6, FactorsOrder
  <2> QED
    BY <1>7, <2>1, <2>2, <2>3, <2>4, <2>5
<1>9. Total(q) \in (W - n + 1)..W
  BY <1>2, <1>8
<1> QED
  BY <1>1, <1>9

(* Where the intervals of a history begin, and the last one ends. *)
Edges(s, end) ==
  [i \in 1..(Len(s) + 1) |-> IF i = Len(s) + 1 THEN end ELSE s[i].timestamp]

(* T is the edges of s, which ends at `end'. *)
Spans(T, s, end, n) ==
  /\ n # 0 /\ DOMAIN s = 1..n /\ T[n + 1] = end
  /\ \A i \in 1..n : T[i] = s[i].timestamp /\ Until(s, i, end) = T[i + 1]

(* They are in order when time runs forward. *)
LEMMA EdgesAscend ==
  ASSUME NEW s \in Seq(Past), s # <<>>, Forward(s), NEW end \in Nat,
         Last(s).timestamp <= end, NEW n, n = Len(s), NEW T, T = Edges(s, end)
  PROVE  Spans(T, s, end, n) /\ Ascends(T, n) /\ n \in Nat \ {0}
<1>1. n \in Nat /\ n # 0 /\ DOMAIN s = 1..n /\ Last(s) = s[n]
  BY EmptySeq DEF Last
<1>2. \A i \in 1..n : s[i].timestamp \in Nat
  <2>1. \A i \in 1..n : s[i] \in Past
    BY <1>1
  <2> QED
    BY <2>1 DEF Past
<1>3. T[n + 1] = end /\ \A i \in 1..n : T[i] = s[i].timestamp
  BY <1>1 DEF Edges
<1>4. ASSUME NEW i \in 1..(n + 1) PROVE T[i] \in Nat
  <2>1. i = n + 1 \/ i \in 1..n
    BY <1>1
  <2> QED
    BY <1>2, <1>3, <2>1
<1>5. ASSUME NEW i \in 1..n
      PROVE  T[i] <= T[i + 1] /\ T[i] = s[i].timestamp /\ Until(s, i, end) = T[i + 1]
  <2>1. CASE i = n
    BY <1>1, <1>3, <2>1 DEF Until
  <2>2. CASE i # n
    <3>1. i + 1 \in 1..n /\ i < i + 1
      BY <1>1, <2>2
    <3>2. s[i].timestamp <= s[i + 1].timestamp
      BY <1>1, <3>1 DEF Forward
    <3> QED
      BY <1>3, <2>2, <3>1, <3>2 DEF Until
  <2> QED
    BY <2>1, <2>2
<1> QED
  BY <1>1, <1>3, <1>4, <1>5 DEF Spans, Ascends

(* The boxes are from edge to edge, and D is the width of all in seconds. *)
BoxesSpan(boxes, s, T, n, D) ==
  /\ Len(boxes) = n /\ DOMAIN boxes = 1..n
  /\ \A i \in 1..n :
       /\ boxes[i].timestamp = T[i] /\ boxes[i].value = s[i].return_code
       /\ boxes[i].duration = T[i + 1] - T[i]
       /\ boxes[i].pixels = Floor((T[i + 1] - T[i]) * GraphWidth, D)

(* What the chart is made of: the starts s and the edges T of the boxes. *)
Chart(boxes, h, now, s, T, n) ==
  LET end == RenderTime(h, now)
  IN  /\ s = Starts(h) /\ s \in Seq(Past) /\ s # <<>> /\ s[1] = h[1] /\ n = Len(s)
      /\ Forward(s) /\ end \in Nat /\ Last(s).timestamp <= end
      /\ n \in Nat \ {0} /\ T[1] = h[1].timestamp
      /\ T[n + 1] = end /\ end - T[1] \in Nat \ {0}
      /\ Spans(T, s, end, n) /\ Ascends(T, n)
      /\ BoxesSpan(boxes, s, T, n, end - T[1])

(* The boxes of the chart, from edge to edge. *)
LEMMA BoxIs ==
  ASSUME NEW h \in Seq(Past), h # <<>>, Forward(h), NEW now \in Nat,
         NEW boxes, boxes = MountStateChangesArray(h, now),
         NEW s, s = Starts(h), NEW T, T = Edges(s, RenderTime(h, now)),
         NEW n, n = Len(s)
  PROVE  Chart(boxes, h, now, s, T, n)
<1> DEFINE end == RenderTime(h, now)
<1>1. /\ s \in Seq(Past) /\ s # <<>> /\ s[1] = h[1]
      /\ Forward(s) /\ Last(s).timestamp <= Last(h).timestamp
  BY StartsOf, StartsForward
<1>2. end \in Nat /\ end > Last(h).timestamp
  BY BoxesTyped
<1> HIDE DEF end
<1>3. Last(s).timestamp < end /\ Last(s).timestamp <= end
  <2>1. Last(s) \in Past /\ Last(h) \in Past
    BY <1>1, LastIn
  <2>2. Last(s).timestamp \in Nat /\ Last(h).timestamp \in Nat
    BY <2>1 DEF Past
  <2> QED
    BY <1>1, <1>2, <2>2
<1>9. T = Edges(s, end)
  BY DEF end
<1>4. Spans(T, s, end, n) /\ Ascends(T, n) /\ n \in Nat \ {0}
  BY <1>1, <1>2, <1>3, <1>9, EdgesAscend
<1>10. /\ DOMAIN s = 1..n /\ T[n + 1] = end
       /\ \A i \in 1..n : T[i] = s[i].timestamp /\ Until(s, i, end) = T[i + 1]
  BY <1>4 DEF Spans
<1>11. \A i \in 1..(n + 1) : T[i] \in Nat
  BY <1>4 DEF Ascends
<1>5. T[1] = h[1].timestamp /\ end - T[1] \in Nat \ {0}
  <2>1. 1 \in 1..n /\ n \in 1..n /\ 1 \in 1..(n + 1) /\ n \in 1..(n + 1)
    BY <1>4
  <2>2. T[1] = h[1].timestamp
    BY <1>1, <1>10, <2>1
  <2>3. T[n] < end
    <3>1. Last(s) = s[n]
      BY DEF Last
    <3> QED
      BY <1>3, <1>10, <2>1, <3>1
  <2>5. T[1] \in Nat /\ T[n] \in Nat
    BY <1>11, <2>1
  <2>4. T[1] <= T[n]
    <3>1. CASE n = 1
      BY <2>5, <3>1
    <3>2. CASE 1 < n
      <4>1. 1 \in DOMAIN s /\ n \in DOMAIN s
        BY <1>10, <2>1
      <4>2. s[1].timestamp <= s[n].timestamp
        BY <1>1, <3>2, <4>1 DEF Forward
      <4> QED
        BY <1>10, <2>1, <4>2
    <3> QED
      BY <1>4, <3>1, <3>2
  <2> QED
    BY <1>2, <2>2, <2>3, <2>4, <2>5
<1>6. boxes = [j \in 1..n |->
              [timestamp |-> s[j].timestamp,
               value |-> s[j].return_code,
               duration |-> Duration(h, now, j),
               pixels |-> Pixels(h, now, j)]]
  BY <1>10, MountIs
<1>7. Len(boxes) = n /\ DOMAIN boxes = 1..n
  BY <1>4, <1>6
<1>8. ASSUME NEW i \in 1..n
      PROVE  /\ boxes[i].timestamp = T[i] /\ boxes[i].value = s[i].return_code
             /\ boxes[i].duration = T[i + 1] - T[i]
             /\ boxes[i].pixels = Floor((T[i + 1] - T[i]) * GraphWidth, end - T[1])
  <2>1. Duration(h, now, i) = T[i + 1] - T[i]
    BY <1>10 DEF Duration, end
  <2>2. Pixels(h, now, i) = Floor((T[i + 1] - T[i]) * GraphWidth, end - T[1])
    BY <1>5, <2>1 DEF Pixels, end
  <2> QED
    BY <1>10, <1>6, <2>1, <2>2
<1>12. BoxesSpan(boxes, s, T, n, end - T[1])
  BY <1>7, <1>8 DEF BoxesSpan
<1> QED
  BY <1>1, <1>2, <1>3, <1>4, <1>5, <1>10, <1>12 DEF Chart, end

(* The boxes fill the chart but for less than a pixel a box, and never overflow it. *)
LEMMA BoxesFill ==
  ASSUME NEW h \in Seq(Past), h # <<>>, Forward(h), NEW now \in Nat,
         NEW boxes, boxes = MountStateChangesArray(h, now)
  PROVE  /\ \A j \in DOMAIN boxes : boxes[j].pixels >= 0
         /\ Drawn(boxes) \in (GraphWidth - Len(boxes) + 1)..GraphWidth
         /\ Len(boxes) \in Nat \ {0}
<1>1. PICK s : s = Starts(h)
  OBVIOUS
<1>2. PICK T : T = Edges(s, RenderTime(h, now))
  OBVIOUS
<1>3. PICK n : n = Len(s)
  OBVIOUS
<1>4. Chart(boxes, h, now, s, T, n)
  BY <1>1, <1>2, <1>3, BoxIs
<1>5. PICK D \in Nat \ {0} : D = T[n + 1] - T[1] /\ BoxesSpan(boxes, s, T, n, D)
  BY <1>4 DEF Chart
<1>6. Ascends(T, n) /\ n \in Nat \ {0}
  BY <1>4 DEF Chart
<1>7. PICK W \in Nat : W = GraphWidth
  BY ChartsAssumption
<1>8. PICK q : q = [j \in DOMAIN boxes |-> boxes[j].pixels]
  OBVIOUS
<1>9. /\ Len(boxes) = n /\ DOMAIN boxes = 1..n
      /\ \A i \in 1..n : q[i] = boxes[i].pixels
                         /\ q[i] = Floor((T[i + 1] - T[i]) * W, D)
  BY <1>5, <1>7, <1>8 DEF BoxesSpan
<1>10. q \in Seq(Int) /\ Len(q) = n
  <2>1. ASSUME NEW i \in 1..n PROVE q[i] \in Int
    <3>1. i \in 1..(n + 1) /\ i + 1 \in 1..(n + 1)
      BY <1>6
    <3>2. T[i] \in Nat /\ T[i + 1] \in Nat
      BY <1>6, <3>1 DEF Ascends
    <3>3. PICK a \in Int : a = (T[i + 1] - T[i]) * W
      BY <3>2
    <3>4. q[i] = Floor(a, D)
      BY <1>9, <3>3
    <3> QED
      BY <3>4, FloorTyped
  <2>2. q = [i \in 1..n |-> q[i]]
    BY <1>8, <1>9
  <2> QED
    BY <1>6, <2>1, <2>2
<1>11. (\A i \in 1..n : q[i] \in Nat) /\ Total(q) \in (W - n + 1)..W
  <2>1. Floors(q, T, n, D, W)
    BY <1>9 DEF Floors
  <2> QED
    BY <1>5, <1>6, <1>10, <2>1, FloorsFill
<1>12. Drawn(boxes) = Total(q)
  BY <1>8 DEF Drawn
<1>13. \A j \in DOMAIN boxes : boxes[j].pixels >= 0
  BY <1>9, <1>11
<1> QED
  BY <1>6, <1>7, <1>9, <1>11, <1>12, <1>13

(* What is on the page ended where this.x says, until the window is resized. *)
ViewInv ==
  drawn[Evolution] # NoEvent /\ ~resized =>
    x[drawn[Evolution].service]
      = XAfter(drawn[Evolution].service, drawn[Evolution].historicData)

(* A chart that is drawn leaves this.x where it ends. *)
LEMMA DrawInView ==
  ASSUME ChartsTyped, ViewInv, NEW k \in Services, NEW graphs, NEW h, Draw(graphs, k, h)
  PROVE  ViewInv'
<1>1. Evolution \in Graphs
  BY DEF Graphs
<1>2. drawn' = [graph \in Graphs |-> IF graph \in graphs
                 THEN [service |-> k, historicData |-> h] ELSE drawn[graph]]
  BY DEF Draw
<1>3. CASE Evolution \in graphs
  <2>1. drawn'[Evolution] = [service |-> k, historicData |-> h]
    BY <1>1, <1>2, <1>3
  <2>2. drawn'[Evolution].service = k /\ drawn'[Evolution].historicData = h
    BY <2>1
  <2>3. x' = [x EXCEPT ![k] = XAfter(k, h)]
    BY <1>3 DEF Draw
  <2>4. x'[k] = XAfter(k, h)
    BY <2>3 DEF ChartsTyped
  <2> QED
    BY <2>2, <2>4 DEF ViewInv, XAfter
<1>4. CASE Evolution \notin graphs
  <2>1. drawn'[Evolution] = drawn[Evolution]
    BY <1>1, <1>2, <1>4
  <2>2. x' = x /\ (resized' <=> resized)
    BY <1>4, Zenon DEF Draw
  <2> QED
    BY <2>1, <2>2 DEF ViewInv, XAfter
<1> QED
  BY <1>3, <1>4

(* A step that draws nothing. *)
LEMMA NothingDrawn ==
  ASSUME ViewInv, UNCHANGED <<drawn, x, resized>>
  PROVE  ViewInv'
<1>1. drawn' = drawn /\ x' = x /\ (resized' <=> resized)
  BY Zenon
<1> QED
  BY <1>1 DEF ViewInv, XAfter

(* The charts of a message, or of a tab that is opened. *)
LEMMA RerenderInView ==
  ASSUME ChartsTyped, ViewInv, NEW k \in Services, NEW g, NEW h,
         UNCHANGED chartVars \/ Rerender(g, k, h) \/ RerenderThrows(g, k, h)
  PROVE  ViewInv'
<1>1. UNCHANGED <<drawn, x, resized>> \/ Draw({g}, k, h)
  BY Zenon DEF chartVars, Rerender, RerenderThrows
<1> QED
  BY <1>1, DrawInView, NothingDrawn

(* this.x is where the chart ends, at every time until the window is resized. *)
THEOREM ViewInvAlways == Spec => []ViewInv
<1>1. Init => ViewInv
  BY DEF Init, ViewInv, Graphs
<1>2. DetailsInv /\ DomainInv /\ ViewInv /\ [Next]_vars => ViewInv'
  <2> SUFFICES ASSUME PagesTyped, ChartsTyped, ViewInv, [Next]_vars PROVE ViewInv'
    BY DEF DetailsInv, DomainInv
  <2>1. ASSUME UNCHANGED chartVars \/ UNCHANGED <<drawn, x, resized>> PROVE ViewInv'
    <3>1. UNCHANGED <<drawn, x, resized>>
      BY <2>1, Zenon DEF chartVars
    <3> QED
      BY <3>1, NothingDrawn
  <2>2. ASSUME NEW msg, msg.service \in Services, AddEvent(msg) PROVE ViewInv'
    <3>1. PICK k \in Services : k = msg.service
      BY <2>2
    <3>2. PICK h : h = Updated(HistoricData(k), msg).historicData
      OBVIOUS
    <3>3. \/ UNCHANGED chartVars
          \/ \E g : Rerender(g, k, h) \/ RerenderThrows(g, k, h)
      BY <2>2, <3>1, <3>2, Zenon DEF AddEvent
    <3> QED
      BY <2>1, <3>3, RerenderInView
  <2>3. ASSUME NEW k \in Services, NEW check \in Checks, Missed(k, check) \/ Live(k, check)
        PROVE  ViewInv'
    <3>1. PICK msg : msg = [service |-> k, result |-> Last(results'[k]), historicData |-> <<>>]
      OBVIOUS
    <3>2. UNCHANGED chartVars \/ AddEvent(msg)
      BY <2>3, <3>1 DEF Missed, Live, detailVars
    <3>3. msg.service \in Services
      BY <3>1
    <3> QED
      BY <2>1, <2>2, <3>2, <3>3
  <2>4. ASSUME NEW k \in Services, NEW m \in 1..MaxResults, Snapshot(k, m) PROVE ViewInv'
    <3>1. PICK msg : msg = [service |-> k, result |-> Last(results[k]),
               historicData |-> Capped(SubSeq(results[k], m + 1, Len(results[k])))]
      OBVIOUS
    <3>2. AddEvent(msg) /\ msg.service \in Services
      BY <2>4, <3>1 DEF Snapshot
    <3> QED
      BY <2>2, <3>2
  <2>5. ASSUME NEW k \in Services, ShowEvent(k) PROVE ViewInv'
    <3>1. \E graphs : Draw(graphs, k, HistoricData(k))
      BY <2>5, Zenon DEF ShowEvent
    <3> QED
      BY <3>1, DrawInView
  <2>6. ASSUME NEW graph \in Tabs, Expand(graph) PROVE ViewInv'
    <3>1. evt \in Services
      <4>1. trail \in Seq(Pages) /\ trail # <<>> /\ Last(trail) = Details
        BY <2>6 DEF PagesTyped, Expand, Page, Details
      <4>2. Len(trail) \in DOMAIN trail /\ trail[Len(trail)] = Details
        BY <4>1 DEF Last
      <4> QED
        BY <4>2 DEF ChartsTyped
    <3>2. \/ UNCHANGED chartVars
          \/ Rerender(graph, evt, HistoricData(evt))
          \/ RerenderThrows(graph, evt, HistoricData(evt))
      BY <2>6 DEF Expand
    <3> QED
      BY <3>1, <3>2, RerenderInView
  <2>7. CASE Resize
    <3>1. resized'
      BY <2>7, Zenon DEF Resize
    <3> QED
      BY <3>1, Zenon DEF ViewInv
  <2>8. ASSUME NEW host \in Range(HostOf), GoToHostDetailedView(host) PROVE ViewInv'
    BY <2>1, <2>8 DEF GoToHostDetailedView, detailVars
  <2>9. CASE BackFromHostDetailedView \/ Collapse \/ Refresh
    BY <2>1, <2>9 DEF BackFromHostDetailedView, Collapse, Refresh, detailVars
  <2>10. CASE EventBackButton \/ Back \/ UNCHANGED vars
    BY <2>1, <2>10 DEF EventBackButton, Back, detailVars, vars
  <2> QED
    BY <2>3, <2>4, <2>5, <2>6, <2>7, <2>8, <2>9, <2>10 DEF Next
<1> QED
  BY <1>1, <1>2, DetailsInvAlways, DomainInvAlways, PTL DEF Spec

(* A chart of no history has no box. *)
LEMMA NoBox ==
  ASSUME NEW k
  PROVE  XAfter(k, <<>>) = 0
<1>1. Places(<<>>, StateChanges(<<>>)) \in Seq(1..0)
  <2>1. Len(<<>>) = 0
    OBVIOUS
  <2> QED
    BY <2>1, PlacesAscend
<1>2. DOMAIN Starts(<<>>) = 1..0
  <2>1. PICK p : p = Places(<<>>, StateChanges(<<>>))
    OBVIOUS
  <2>2. p \in Seq(1..0)
    BY <1>1, <2>1
  <2>3. DOMAIN p = 1..0
    <3>1. PICK n \in Nat : DOMAIN p = 1..n /\ \A i \in 1..n : p[i] \in 1..0
      BY <2>2, LenProperties
    <3>2. n = 0
      <4>1. 1 \in 1..n => p[1] \in 1..0
        BY <3>1
      <4> QED
        BY <4>1
    <3> QED
      BY <3>1, <3>2
  <2> QED
    BY <2>1, <2>3 DEF Starts
<1>3. PICK boxes : boxes = MountStateChangesArray(<<>>, Last(<<>>).timestamp)
  OBVIOUS
<1>4. DOMAIN boxes = 1..0
  BY <1>2, <1>3, MountIs
<1>5. PICK q : q = [j \in DOMAIN boxes |-> boxes[j].pixels]
  OBVIOUS
<1>6. q \in Seq(Int) /\ Len(q) = 0
  <2>1. q = [j \in 1..0 |-> boxes[j].pixels]
    BY <1>4, <1>5
  <2>2. \A j \in 1..0 : boxes[j].pixels \in Int
    OBVIOUS
  <2> QED
    BY <2>1, <2>2
<1>7. Total(q) = 0
  BY <1>6, TotalLoop
<1> QED
  BY <1>3, <1>5, <1>7 DEF XAfter, Drawn

(* The boxes of the chart on the page end inside it, however often
   EventAvailEvolutionGraph.js draws it again, unless the window was resized. *)
THEOREM EvolutionAlwaysInView == Spec => []EvolutionInView
<1>1. DomainInv /\ ViewInv => EvolutionInView
  <2> SUFFICES ASSUME ChartsTyped, ViewInv, drawn[Evolution] # NoEvent, ~resized,
                      Forward(drawn[Evolution].historicData)
               PROVE  x[drawn[Evolution].service] <= GraphWidth
    BY DEF DomainInv, EvolutionInView
  <2>1. PICK d : d = drawn[Evolution]
    OBVIOUS
  <2>2. d \in [service : Services, historicData : Seq(Past)]
    BY <2>1 DEF ChartsTyped, Graphs
  <2>3. PICK h \in Seq(Past) : h = d.historicData
    BY <2>2
  <2>4. x[d.service] = XAfter(d.service, h)
    BY <2>1, <2>3 DEF ViewInv
  <2>5. CASE h = <<>>
    BY <2>1, <2>4, <2>5, NoBox, ChartsAssumption
  <2>6. CASE h # <<>>
    <3>1. PICK now \in Nat : now = Last(h).timestamp
      BY <2>6, LastIn DEF Past
    <3>2. PICK boxes : boxes = MountStateChangesArray(h, now)
      OBVIOUS
    <3>3. Drawn(boxes) \in (GraphWidth - Len(boxes) + 1)..GraphWidth /\ Len(boxes) \in Nat
      BY <2>1, <2>3, <2>6, <3>2, BoxesFill
    <3>4. Drawn(boxes) <= GraphWidth
      BY <3>3, ChartsAssumption
    <3> QED
      BY <2>1, <2>4, <3>1, <3>2, <3>4 DEF XAfter
  <2> QED
    BY <2>5, <2>6
<1> QED
  BY <1>1, DomainInvAlways, ViewInvAlways, PTL

(* p is the places of h where a state begins, and s the entries there. *)
Picks(p, s, h, n, N) ==
  /\ \A j \in 1..n : p[j] \in 1..N /\ p[j] \in StateChanges(h) /\ s[j] = h[p[j]]
  /\ \A j, l \in 1..n : j < l => p[j] < p[l]
  /\ \A i \in 1..N : i \in StateChanges(h) => \E j \in 1..n : p[j] = i

(* No state begins between one of them and the next. *)
LEMMA NoneBetween ==
  ASSUME NEW n \in Nat, NEW N \in Nat, NEW p, NEW s, NEW h, Picks(p, s, h, n, N),
         NEW j \in 1..n, NEW i \in 1..N, p[j] < i, j # n => i < p[j + 1]
  PROVE  i \notin StateChanges(h)
<1> SUFFICES ASSUME i \in StateChanges(h) PROVE FALSE
  OBVIOUS
<1>1. PICK l \in 1..n : p[l] = i
  BY DEF Picks
<1>2. \A m \in 1..n : p[m] \in Int
  BY DEF Picks
<1>3. l < j => p[l] < p[j]
  BY DEF Picks
<1>4. CASE l <= j
  BY <1>1, <1>2, <1>3, <1>4
<1>5. CASE l > j
  <2>1. j # n /\ j + 1 \in 1..n
    BY <1>5
  <2>2. j + 1 < l => p[j + 1] < p[l]
    BY <2>1 DEF Picks
  <2>3. l = j + 1 \/ j + 1 < l
    BY <1>5
  <2>4. i < p[j + 1]
    BY <2>1
  <2> QED
    BY <1>1, <1>2, <2>1, <2>2, <2>3, <2>4
<1> QED
  BY <1>4, <1>5

(* While no state begins the state is the same. *)
LEMMA SameCode ==
  ASSUME NEW h, NEW N \in Nat, DOMAIN h = 1..N, NEW a \in 1..N, NEW m \in 1..N, a <= m,
         \A i \in 1..N : a < i /\ i <= m => i \notin StateChanges(h)
  PROVE  h[m].return_code = h[a].return_code
<1>1. ASSUME NEW i \in 1..N, a < i, i <= m
      PROVE  h[i].return_code = h[i - 1].return_code
  BY <1>1 DEF StateChanges
<1> DEFINE S == {d \in Nat : a + d <= m => h[a + d].return_code = h[a].return_code}
<1>2. 0 \in S
  OBVIOUS
<1>3. ASSUME NEW d \in Nat, d \in S PROVE d + 1 \in S
  <2> SUFFICES ASSUME a + (d + 1) <= m
               PROVE  h[a + (d + 1)].return_code = h[a].return_code
    OBVIOUS
  <2>1. PICK i \in 1..N : i = a + (d + 1)
    OBVIOUS
  <2>2. a < i /\ i <= m /\ i - 1 = a + d /\ a + d <= m
    BY <2>1
  <2>3. h[a + d].return_code = h[a].return_code
    BY <1>3, <2>2
  <2>4. h[i].return_code = h[i - 1].return_code
    BY <1>1, <2>2
  <2> QED
    BY <2>1, <2>2, <2>3, <2>4
<1> HIDE DEF S
<1>4. Nat \subseteq S
  BY <1>2, <1>3, NatSetInduction
<1>5. PICK d \in Nat : a + d = m
  <2>1. m - a \in Nat /\ a + (m - a) = m
    OBVIOUS
  <2> QED
    BY <2>1
<1> QED
  BY <1>4, <1>5 DEF S

(* What the boxes start with is picked in this way. *)
LEMMA StartsPicked ==
  ASSUME NEW h \in Seq(Past), h # <<>>, NEW s, s = Starts(h), NEW n, n = Len(s),
         NEW N, N = Len(h)
  PROVE  Picks(StartPlaces(h), s, h, n, N) /\ n \in Nat /\ N \in Nat /\ DOMAIN h = 1..N
<1>1. n \in Nat /\ N \in Nat /\ DOMAIN h = 1..N
  BY StartsTyped, LenProperties
<1>2. /\ \A j \in 1..Len(s) : /\ StartPlaces(h)[j] \in 1..Len(h)
                              /\ StartPlaces(h)[j] \in StateChanges(h)
                              /\ s[j] = h[StartPlaces(h)[j]]
      /\ \A j, l \in 1..Len(s) : j < l => StartPlaces(h)[j] < StartPlaces(h)[l]
      /\ \A i \in 1..Len(h) : i \in StateChanges(h) =>
           \E j \in 1..Len(s) : StartPlaces(h)[j] = i
  BY StartsOf
<1> QED
  BY <1>1, <1>2 DEF Picks

(* A box is of another state than the one before. *)
LEMMA NeighboursDiffer ==
  ASSUME NEW h \in Seq(Past), h # <<>>, NEW s, s = Starts(h), NEW n, n = Len(s),
         NEW j \in 2..n
  PROVE  s[j].return_code # s[j - 1].return_code
<1>1. PICK p : p = StartPlaces(h)
  OBVIOUS
<1>2. PICK N : N = Len(h)
  OBVIOUS
<1>3. Picks(p, s, h, n, N) /\ n \in Nat /\ N \in Nat /\ DOMAIN h = 1..N
  BY <1>1, <1>2, StartsPicked
<1>4. PICK k \in 1..n : k = j - 1 /\ k + 1 = j /\ j \in 1..n /\ k < j /\ k # n
  BY <1>3
<1>5. /\ p[k] \in 1..N /\ p[j] \in 1..N /\ p[k] < p[j]
      /\ s[k] = h[p[k]] /\ s[j] = h[p[j]] /\ p[j] \in StateChanges(h)
  BY <1>3, <1>4 DEF Picks
<1>6. PICK a \in 1..N : a = p[k]
  BY <1>5
<1>7. PICK b \in 1..N : b = p[j]
  BY <1>5
<1>8. PICK m \in 1..N : m = b - 1 /\ a <= m /\ m < b /\ b # 1
  BY <1>3, <1>5, <1>6, <1>7
<1>9. ASSUME NEW i \in 1..N, a < i, i <= m PROVE i \notin StateChanges(h)
  <2>1. i < p[k + 1] /\ p[k] < i
    BY <1>3, <1>4, <1>6, <1>7, <1>8, <1>9
  <2> QED
    BY <1>3, <2>1, NoneBetween
<1>10. h[m].return_code = h[a].return_code
  BY <1>3, <1>8, <1>9, SameCode
<1>11. h[b].return_code # h[m].return_code
  BY <1>5, <1>7, <1>8 DEF StateChanges
<1> QED
  BY <1>4, <1>5, <1>6, <1>7, <1>10, <1>11

(* The starts of the boxes tell the state at every second as the history does. *)
LEMMA StartsTellState ==
  ASSUME NEW h \in Seq(Past), h # <<>>, Forward(h), NEW s, s = Starts(h),
         NEW t \in Int, h[1].timestamp <= t
  PROVE  StateAt(s, t) = StateAt(h, t)
<1>1. PICK p : p = StartPlaces(h)
  OBVIOUS
<1>2. PICK N : N = Len(h)
  OBVIOUS
<1>3. PICK n : n = Len(s)
  OBVIOUS
<1>4. Picks(p, s, h, n, N) /\ n \in Nat /\ N \in Nat /\ DOMAIN h = 1..N
  BY <1>1, <1>2, <1>3, StartsPicked
<1>5. s \in Seq(Past) /\ s # <<>> /\ s[1] = h[1]
  BY StartsOf
<1>6. PICK m : m = At(h, t)
  OBVIOUS
<1>7. /\ m \in 1..N /\ h[m].timestamp <= t
      /\ \A i \in 1..N : h[i].timestamp <= t => i <= m
  BY <1>2, <1>6, AtIs
<1>8. PICK b : b = At(s, t)
  OBVIOUS
<1>9. /\ b \in 1..n /\ s[b].timestamp <= t
      /\ \A i \in 1..n : s[i].timestamp <= t => i <= b
  BY <1>3, <1>5, <1>8, AtIs
<1>10. PICK a \in 1..N : a = p[b] /\ s[b] = h[a]
  BY <1>4, <1>9 DEF Picks
<1>11. a <= m
  BY <1>7, <1>9, <1>10
<1>12. ASSUME NEW i \in 1..N, a < i, i <= m PROVE i \notin StateChanges(h)
  <2>1. ASSUME b # n PROVE i < p[b + 1]
    <3>1. b + 1 \in 1..n
      BY <1>4, <1>9, <2>1
    <3>2. PICK e \in 1..N : e = p[b + 1] /\ s[b + 1] = h[e]
      BY <1>4, <3>1 DEF Picks
    <3>3. ~(h[e].timestamp <= t)
      BY <1>4, <1>9, <3>1, <3>2
    <3>4. e <= m => h[e].timestamp <= t
      <4>1. h[e] \in Past /\ h[m] \in Past
        BY <1>4, <1>7
      <4>2. h[e].timestamp \in Nat /\ h[m].timestamp \in Nat
        BY <4>1 DEF Past
      <4>3. e < m => h[e].timestamp <= h[m].timestamp
        BY <1>4, <1>7 DEF Forward
      <4> QED
        BY <1>4, <1>7, <4>2, <4>3
    <3> QED
      BY <1>4, <1>7, <1>12, <3>2, <3>3, <3>4
  <2>2. p[b] < i
    BY <1>10, <1>12
  <2> QED
    BY <1>4, <1>9, <2>1, <2>2, NoneBetween
<1>13. h[m].return_code = h[a].return_code
  BY <1>4, <1>7, <1>11, <1>12, SameCode
<1>14. StateAt(h, t) = h[m].return_code /\ StateAt(s, t) = s[b].return_code
  BY <1>6, <1>8 DEF StateAt, At
<1> QED
  BY <1>10, <1>13, <1>14

(* So they tell the same seconds of every state. *)
LEMMA SecondsTheSame ==
  ASSUME NEW h \in Seq(Past), h # <<>>, Forward(h), NEW s, s = Starts(h),
         NEW c, NEW end \in Nat
  PROVE  SecondsIn(c, s, end) = SecondsIn(c, h, end)
<1>1. s[1] = h[1]
  BY StartsOf
<1>2. PICK a \in Int : a = h[1].timestamp
  <2>1. h[1] \in Past
    BY EmptySeq
  <2> QED
    BY <2>1 DEF Past
<1>3. \A t \in a..(end - 1) : StateAt(s, t) = StateAt(h, t)
  <2> SUFFICES ASSUME NEW t \in a..(end - 1) PROVE StateAt(s, t) = StateAt(h, t)
    OBVIOUS
  <2>1. t \in Int /\ h[1].timestamp <= t
    BY <1>2
  <2> QED
    BY <2>1, StartsTellState
<1>4. {t \in a..(end - 1) : StateAt(s, t) = c} = {t \in a..(end - 1) : StateAt(h, t) = c}
  BY <1>3
<1> QED
  BY <1>1, <1>2, <1>4 DEF SecondsIn

(* The boxes of a value are the seconds in that state. *)
LEMMA BoxesAreSeconds ==
  ASSUME NEW h \in Seq(Past), h # <<>>, Forward(h), NEW now \in Nat,
         NEW boxes, boxes = MountStateChangesArray(h, now),
         NEW end, end = RenderTime(h, now), NEW c
  PROVE  Total([j \in DOMAIN boxes |-> IF boxes[j].value = c THEN boxes[j].duration ELSE 0])
           = SecondsIn(c, h, end)
<1>1. PICK s : s = Starts(h)
  OBVIOUS
<1>2. PICK T : T = Edges(s, RenderTime(h, now))
  OBVIOUS
<1>3. PICK n : n = Len(s)
  OBVIOUS
<1>4. Chart(boxes, h, now, s, T, n)
  BY <1>1, <1>2, <1>3, BoxIs
<1>5. /\ s \in Seq(Past) /\ s # <<>> /\ Forward(s) /\ end \in Nat /\ Last(s).timestamp <= end
      /\ Spans(T, s, end, n) /\ BoxesSpan(boxes, s, T, n, end - T[1])
  BY <1>4 DEF Chart
<1>6. /\ DOMAIN s = 1..n
      /\ \A i \in 1..n : T[i] = s[i].timestamp /\ Until(s, i, end) = T[i + 1]
  BY <1>5 DEF Spans
<1>7. /\ DOMAIN boxes = 1..n
      /\ \A i \in 1..n : /\ boxes[i].value = s[i].return_code
                         /\ boxes[i].duration = T[i + 1] - T[i]
  BY <1>5 DEF BoxesSpan
<1>8. [j \in DOMAIN boxes |-> IF boxes[j].value = c THEN boxes[j].duration ELSE 0]
        = Parts(s, end, c)
  BY <1>6, <1>7 DEF Parts
<1>9. Total(Parts(s, end, c)) = SecondsIn(c, s, end)
  BY <1>5, PartsAreSeconds
<1>10. SecondsIn(c, s, end) = SecondsIn(c, h, end)
  BY <1>1, <1>5, SecondsTheSame
<1> QED
  BY <1>8, <1>9, <1>10

(* Neighbours differ, and each box starts where the one before ends. *)
LEMMA BoxesAdjoin ==
  ASSUME NEW h \in Seq(Past), h # <<>>, Forward(h), NEW now \in Nat,
         NEW boxes, boxes = MountStateChangesArray(h, now), NEW j \in 2..Len(boxes)
  PROVE  /\ boxes[j].value # boxes[j - 1].value
         /\ boxes[j].timestamp = boxes[j - 1].timestamp + boxes[j - 1].duration
<1>1. PICK s : s = Starts(h)
  OBVIOUS
<1>2. PICK T : T = Edges(s, RenderTime(h, now))
  OBVIOUS
<1>3. PICK n : n = Len(s)
  OBVIOUS
<1>4. Chart(boxes, h, now, s, T, n)
  BY <1>1, <1>2, <1>3, BoxIs
<1>5. /\ n \in Nat \ {0} /\ Ascends(T, n)
      /\ BoxesSpan(boxes, s, T, n, RenderTime(h, now) - T[1])
  BY <1>4 DEF Chart
<1>6. Len(boxes) = n
  BY <1>5 DEF BoxesSpan
<1>7. PICK k \in 1..n : k = j - 1 /\ k + 1 = j /\ j \in 1..n /\ j \in 2..n
  BY <1>5, <1>6
<1>8. /\ boxes[j].value = s[j].return_code /\ boxes[k].value = s[k].return_code
      /\ boxes[j].timestamp = T[j] /\ boxes[k].timestamp = T[k]
      /\ boxes[k].duration = T[j] - T[k]
  BY <1>5, <1>7 DEF BoxesSpan
<1>9. T[j] \in Nat /\ T[k] \in Nat
  <2>1. j \in 1..(n + 1) /\ k \in 1..(n + 1)
    BY <1>5, <1>7
  <2> QED
    BY <1>5, <2>1 DEF Ascends
<1>10. s[j].return_code # s[j - 1].return_code
  BY <1>1, <1>3, <1>7, NeighboursDiffer
<1> QED
  BY <1>7, <1>8, <1>9, <1>10

(* What the boxes of a history should show. *)
ShowsHistory(h, now) ==
  LET boxes == MountStateChangesArray(h, now)
      end == RenderTime(h, now)
  IN  /\ \A c \in {boxes[j].value : j \in DOMAIN boxes} :
           Total([j \in DOMAIN boxes |->
                    IF boxes[j].value = c THEN boxes[j].duration ELSE 0])
             = SecondsIn(c, h, end)
      /\ \A j \in 2..Len(boxes) :
           /\ boxes[j].value # boxes[j - 1].value
           /\ boxes[j].timestamp = boxes[j - 1].timestamp + boxes[j - 1].duration
      /\ \A j \in DOMAIN boxes : boxes[j].pixels >= 0
      /\ Drawn(boxes) \in (GraphWidth - Len(boxes) + 1)..GraphWidth

(* They do when time runs forward in it. *)
LEMMA BoxesShowHistory ==
  ASSUME NEW h \in Seq(Past), h # <<>>, Forward(h), NEW now \in Nat
  PROVE  ShowsHistory(h, now)
<1>1. PICK boxes : boxes = MountStateChangesArray(h, now)
  OBVIOUS
<1>2. PICK end : end = RenderTime(h, now)
  OBVIOUS
<1>3. \A c : Total([j \in DOMAIN boxes |->
                      IF boxes[j].value = c THEN boxes[j].duration ELSE 0])
               = SecondsIn(c, h, end)
  BY <1>1, <1>2, BoxesAreSeconds
<1>4. \A j \in 2..Len(boxes) :
        /\ boxes[j].value # boxes[j - 1].value
        /\ boxes[j].timestamp = boxes[j - 1].timestamp + boxes[j - 1].duration
  BY <1>1, BoxesAdjoin
<1>5. /\ \A j \in DOMAIN boxes : boxes[j].pixels >= 0
      /\ Drawn(boxes) \in (GraphWidth - Len(boxes) + 1)..GraphWidth
  BY <1>1, BoxesFill
<1> QED
  BY <1>1, <1>2, <1>3, <1>4, <1>5, Zenon DEF ShowsHistory

(* The boxes of EventAvailEvolutionGraph.js show, for every history an event comes to
   have that runs forward and at every time of the phone's clock, the seconds the
   service was in each state: neighbours differ, each box starts where the one before
   ends, and they fill the chart but for less than a pixel a box. *)
THEOREM EvolutionAlwaysExact == Spec => []EvolutionExact
<1>1. DetailsInv /\ HistoryInv => EvolutionExact
  <2> SUFFICES ASSUME DataTyped, HistoryInv PROVE EvolutionExact
    BY DEF DetailsInv
  <2>1. ASSUME NEW h \in Histories, NEW now \in Clock(h), Forward(h)
        PROVE  ShowsHistory(h, now)
    <3>1. h \in Seq(Past) /\ h # <<>> /\ now \in Nat
      BY HistoriesTyped
    <3> QED
      BY <2>1, <3>1, BoxesShowHistory
  <2> QED
    BY <2>1, Zenon DEF EvolutionExact, ShowsHistory
<1> QED
  BY <1>1, DetailsInvAlways, HistoryInvAlways, PTL
=============================================================================

-------------------------------- MODULE Cockpit --------------------------------
(***************************************************************************)
(* The phone: the events it holds (client classes/EventsManager.js,        *)
(* Event.js), the lists they are attached to (EventVisualRepresentation,   *)
(* HostDetailInterfaceController), the page with the details of one event  *)
(* and its three charts (EventDetailInterfaceController), and, as an       *)
(* instance of EventsLineGraph, the bars and counters of the main page.    *)
(* What the charts draw is defined in EventCharts.                         *)
(*                                                                         *)
(* Messages come from the middleware: a result as it is processed, or, when*)
(* a connection is made, the last result of a service with its history.    *)
(* Results may pass while the phone is not connected.  jQuery Mobile keeps *)
(* the trail of pages shown; the device's back button steps back on it.    *)
(*                                                                         *)
(* An error thrown by a chart ends the handler that draws it: addEvent() is*)
(* then left before it touches the counters and the list.  The tabs of the *)
(* charts are a collapsible set: at most one is open, and only its chart   *)
(* can be visible.  The phone's clock shows the time of the newest result  *)
(* when a chart is drawn.                                                  *)
(*                                                                         *)
(* log, resent, unfinished, strayed and resized are history variables; no   *)
(* guard but a bound reads them.  onlyHard is FALSE: nothing sets it.       *)
(***************************************************************************)
EXTENDS EventCharts

CONSTANTS
  Services,         \* <host_name, service_description> pairs
  HostOf,           \* the host of each service
  Checks,           \* what a check may give, and the seconds since the last
  NoEvent,          \* `undefined' and null
  MaxEntries,       \* columns of the graph of the main page
  Tabs,             \* bound: the tabs that are ever opened
  MaxResults,       \* bound: results of all services
  MaxEvents,        \* bound: messages the phone handles to the end
  MaxTrail,         \* bound: pages on the trail
  MaxSeconds        \* bound: seconds

Performance == "#event-perf-graph"
Overview == "#event-avail-graph-overview"
Evolution == "#event-avail-graph-evolution"
Graphs == {Performance, Overview, Evolution}

EventsList == "#eventslist"
HostList == "#host-cockpit-services-states"
Lists == {EventsList, HostList}
Pages == {"#main", "#host-cockpit", "#event-details-cockpit"}

ASSUME ServicesAssumption == IsFiniteSet(Services)
ASSUME ChecksAssumption ==
  Checks \subseteq [gap : Nat, return_code : Int, perf_data : Seq(Int)]
ASSUME NoEventAssumption ==
  NoEvent \notin Event /\ NoEvent \notin Services \cup Graphs
ASSUME BoundsAssumption ==
  /\ MaxResults \in Nat /\ MaxEvents \in Nat /\ MaxTrail \in Nat \ {0}
  /\ MaxEntries \in Nat \ {0} /\ MaxSeconds \in Nat
  /\ Tabs \subseteq Graphs

VARIABLES
  results,             \* per service, the results so far
  servicesLastStates,  \* this.servicesLastStates
  lists,               \* the elements of the two html lists, first to last
  attachedTo,          \* per event, this.attachedTo
  evts,                \* the events the host page has attached
  trail,               \* the pages shown, the visible one last
  evt,                 \* the event of the details page
  tab,                 \* the open tab of the details page
  charts,              \* per event, the charts that are not null
  drawn,               \* per container, what was drawn there last
  x,                   \* per event, availEvolutionGraph.x
  changes,             \* the events with rows in the list of state changes
  eventsDelta, historicDataArrays, plot, counts, seconds,
  log,                 \* history variable: <service, code> handled to the end
  resent,              \* history variable: per service, how often it was sent again
                       \* after a result, counted up to MaxHistoricData
  unfinished,          \* history variable: services whose last message an error ended
  strayed,             \* history variable: the back button has been used, or an
                       \* error has ended show()
  resized              \* history variable: the window has been resized

Main == INSTANCE EventsLineGraph

mainVars == <<eventsDelta, historicDataArrays, plot, counts, seconds>>
eventVars == <<results, servicesLastStates, resent, unfinished>>
listVars == <<lists, attachedTo>>
pageVars == <<evts, trail, strayed>>
chartVars == <<charts, drawn, x, resized>>
detailVars == <<evt, tab, chartVars, changes>>
vars == <<eventVars, listVars, pageVars, detailVars, mainVars, log>>

Page == Last(trail)
Known(k) == servicesLastStates[k] # NoEvent
HistoricData(k) == IF Known(k) THEN servicesLastStates[k].historicData ELSE <<>>

-----------------------------------------------------------------------------
(* attach() and detach(): a new view goes to the head of the list, detach
   takes every view of the event off it. *)
Attach(k, where) ==
  /\ lists' = [lists EXCEPT ![where] = <<k>> \o @]
  /\ attachedTo' = [attachedTo EXCEPT ![k] = @ \cup {where}]

Detach(K, where) ==
  /\ lists' = [lists EXCEPT ![where] = Kept(@, Services \ K)]
  /\ attachedTo' =
       [k \in Services |->
          IF k \in K THEN attachedTo[k] \ {where} ELSE attachedTo[k]]

(* A mutated form: an event is attached without a look at where it is. *)
ListEventAgain(k, code) ==
  IF code = OK THEN Detach({k}, EventsList) ELSE Attach(k, EventsList)

(* The end of addEvent(): a recovery leaves the list, a problem enters it
   unless it is there. *)
ListEvent(k, code) ==
  \/ code = OK /\ Detach({k}, EventsList)
  \/ code # OK /\ EventsList \in attachedTo[k] /\ UNCHANGED listVars
  \/ code # OK /\ EventsList \notin attachedTo[k] /\ Attach(k, EventsList)

-----------------------------------------------------------------------------
(* The charts of an event. *)

(* parseDirtyValueString() throws on a value it has no match for,
   sumTimePerState() on a code it has no counter for. *)
Throws(graph, h) ==
  \/ graph = Performance /\ \E i \in DOMAIN h : \E value \in Range(h[i].perf_data) :
                              value < 0
  \/ graph = Overview /\ \E i \in DOMAIN h : h[i].return_code \notin States

(* A mutated form: render() of the evolution chart goes on from this.x. *)
XAfterContinuing(k, h) ==
  x[k] + Drawn(MountStateChangesArray(h, Last(h).timestamp))

(* render() of the evolution chart starts from x = 0. *)
XAfter(k, h) == Drawn(MountStateChangesArray(h, Last(h).timestamp))

(* render() of charts that do not throw. *)
Draw(graphs, k, h) ==
  /\ drawn' = [graph \in Graphs |-> IF graph \in graphs
                THEN [service |-> k, historicData |-> h] ELSE drawn[graph]]
  /\ x' = IF Evolution \in graphs THEN [x EXCEPT ![k] = XAfter(k, h)] ELSE x
  /\ UNCHANGED resized

(* rerender(): destroy() and render(). *)
Rerender(graph, k, h) ==
  /\ graph \in charts[k]
  /\ ~Throws(graph, h)
  /\ Draw({graph}, k, h)
  /\ UNCHANGED charts

RerenderThrows(graph, k, h) ==
  /\ graph \in charts[k]
  /\ Throws(graph, h)
  /\ charts' = [charts EXCEPT ![k] = @ \ {graph}]
  /\ UNCHANGED <<drawn, x, resized>>

(* A mutated form: what is on the page is not drawn again. *)
VisibleNever(k) == {}

(* The charts of k that are :visible. *)
Visible(k) ==
  IF Page = "#event-details-cockpit" THEN charts[k] \cap {tab} ELSE {}

-----------------------------------------------------------------------------
(* addEvent(). *)
AddEvent(msg) ==
  LET k == msg.service
      code == Normalised(msg.result.return_code)
      event == Updated(HistoricData(k), msg)
  IN  /\ servicesLastStates' = [servicesLastStates EXCEPT ![k] = event]
      /\ \/ /\ \/ Visible(k) = {} /\ UNCHANGED chartVars
               \/ \E g \in Visible(k) : Rerender(g, k, event.historicData)
            /\ Len(log) < MaxEvents
            /\ log' = Append(log, <<k, code>>)
            /\ Main!NewEvent(code)
            /\ ListEvent(k, code)
            /\ unfinished' = unfinished \ {k}
         \/ /\ \E g \in Visible(k) : RerenderThrows(g, k, event.historicData)
            /\ unfinished' = unfinished \cup {k}
            /\ UNCHANGED <<log, mainVars, listVars>>
      /\ UNCHANGED <<evt, tab, changes, pageVars>>

(* A second passes on the main page's graph. *)
Refresh ==
  /\ Main!Refresh(Len(log))
  /\ UNCHANGED <<eventVars, listVars, pageVars, detailVars, log>>

-----------------------------------------------------------------------------
(* The messages of the middleware. *)
NewResult(k, check) ==
  /\ MapThenSumSet(LAMBDA j : Len(results[j]), Services) < MaxResults
  /\ results' = [results EXCEPT ![k] = Append(@,
       [timestamp |-> check.gap + (IF @ = <<>> THEN 0 ELSE Last(@).timestamp),
        return_code |-> check.return_code, perf_data |-> check.perf_data])]

(* A result the phone is not there to get. *)
Missed(k, check) ==
  /\ NewResult(k, check)
  /\ UNCHANGED <<servicesLastStates, resent, unfinished, listVars, pageVars,
                 detailVars, mainVars, log>>

Live(k, check) ==
  /\ NewResult(k, check)
  /\ AddEvent([service |-> k, result |-> Last(results'[k]), historicData |-> <<>>])
  /\ UNCHANGED resent

(* The snapshot of a middleware whose first result of the service was the
   m-th. *)
Snapshot(k, m) ==
  /\ m \in DOMAIN results[k]
  /\ AddEvent([service |-> k, result |-> Last(results[k]),
               historicData |-> Capped(SubSeq(results[k], m + 1, Len(results[k])))])
  /\ resent' = IF Known(k) /\ resent[k] < MaxHistoricData
               THEN [resent EXCEPT ![k] = @ + 1] ELSE resent
  /\ UNCHANGED results

-----------------------------------------------------------------------------
(* The pages. *)

(* A mutated form: the events are forgotten, not detached. *)
HideForgetting ==
  /\ evts' = {}
  /\ UNCHANGED listVars

(* hide() of the host page, on pagebeforehide. *)
Hide ==
  /\ evts' = {}
  /\ Detach(evts, HostList)

Leave == IF Page = "#host-cockpit" THEN Hide ELSE UNCHANGED <<evts, listVars>>

ChangePage(page) ==
  /\ Len(trail) < MaxTrail
  /\ trail' = Append(trail, page)

(* goToHostDetailedView(), and show() of the host page. *)
GoToHostDetailedView(host) ==
  LET K == {k \in Services : Known(k) /\ HostOf[k] = host}
  IN  /\ Page = "#main"
      /\ K # {}
      /\ ChangePage("#host-cockpit")
      /\ evts' = evts \cup K
      /\ lists' = [lists EXCEPT ![HostList] = SetToSeq(K) \o @]
      /\ attachedTo' = [k \in Services |->
           IF k \in K THEN attachedTo[k] \cup {HostList} ELSE attachedTo[k]]
      /\ UNCHANGED <<eventVars, strayed, detailVars, mainVars, log>>

BackFromHostDetailedView ==
  /\ Page = "#host-cockpit"
  /\ ChangePage("#main")
  /\ Hide
  /\ UNCHANGED <<eventVars, strayed, detailVars, mainVars, log>>

(* A click on an event: show() of the details page renders the charts that are
   null, one after the other; an error leaves it before the page changes. *)
ShowEvent(k) ==
  LET h == HistoricData(k)
      order == [g \in Graphs |->
                  CASE g = Performance -> 1 [] g = Overview -> 2 [] OTHER -> 3]
      failing == {g \in Graphs \ charts[k] : Throws(g, h)}
      rendered == {g \in Graphs \ charts[k] : \A f \in failing : order[g] < order[f]}
  IN  /\ \/ Page = "#main" /\ k \in Range(lists[EventsList])
         \/ Page = "#host-cockpit" /\ k \in Range(lists[HostList])
      /\ evt' = k
      /\ charts' = [charts EXCEPT ![k] = @ \cup rendered]
      /\ Draw(rendered, k, h)
      /\ \/ /\ failing # {}
            /\ strayed' = TRUE
            /\ UNCHANGED <<changes, evts, trail, listVars>>
         \/ /\ failing = {}
            /\ changes' = changes \cup {k}
            /\ UNCHANGED strayed
            /\ ChangePage("#event-details-cockpit")
            /\ Leave
      /\ UNCHANGED <<eventVars, tab, mainVars, log>>

(* A tab is opened, which closes the open one. *)
Expand(graph) ==
  /\ Page = "#event-details-cockpit"
  /\ tab # graph
  /\ tab' = graph
  /\ \/ graph \notin charts[evt] /\ UNCHANGED chartVars
     \/ Rerender(graph, evt, HistoricData(evt))
     \/ RerenderThrows(graph, evt, HistoricData(evt))
  /\ UNCHANGED <<eventVars, listVars, pageVars, evt, changes, mainVars, log>>

Collapse ==
  /\ Page = "#event-details-cockpit"
  /\ tab # NoEvent
  /\ tab' = NoEvent
  /\ UNCHANGED <<eventVars, listVars, pageVars, evt, chartVars, changes,
                 mainVars, log>>

(* The window is resized: Chartist draws the charts there are again, and the boxes
   of the evolution chart go on from this.x.  Bounds: once, in runs that open its
   tab, and while one event has charts. *)
Resize ==
  /\ ~resized
  /\ Evolution \in Tabs
  /\ resized' = TRUE
  /\ \E k \in Services :
       /\ Evolution \in charts[k]
       /\ \A j \in Services \ {k} : charts[j] = {}
       /\ x' = [x EXCEPT ![k] = @ + @]
  /\ UNCHANGED <<eventVars, listVars, pageVars, evt, tab, charts, drawn, changes,
                 mainVars, log>>

(* A mutated form: hide() keeps the rows of the state changes. *)
ChangesAfterHideKept == changes

ChangesAfterHide == {}

(* hide() of the details page. *)
EventBackButton ==
  /\ Page = "#event-details-cockpit"
  /\ ChangePage("#main")
  /\ charts' = [charts EXCEPT ![evt] = {}]
  /\ changes' = ChangesAfterHide
  /\ UNCHANGED <<eventVars, listVars, evts, strayed, evt, tab, drawn, x, resized,
                 mainVars, log>>

(* The back button of the device. *)
Back ==
  /\ Len(trail) > 1
  /\ trail' = Front(trail)
  /\ strayed' = TRUE
  /\ Leave
  /\ UNCHANGED <<eventVars, detailVars, mainVars, log>>

-----------------------------------------------------------------------------
(* run(): no event, the main page. *)
Init ==
  /\ results = [k \in Services |-> <<>>]
  /\ servicesLastStates = [k \in Services |-> NoEvent]
  /\ lists = [l \in Lists |-> <<>>]
  /\ attachedTo = [k \in Services |-> {}]
  /\ evts = {}
  /\ trail = <<"#main">>
  /\ evt = NoEvent
  /\ tab = NoEvent
  /\ charts = [k \in Services |-> {}]
  /\ drawn = [graph \in Graphs |-> NoEvent]
  /\ x = [k \in Services |-> 0]
  /\ changes = {}
  /\ Main!Init
  /\ log = <<>>
  /\ resent = [k \in Services |-> 0]
  /\ unfinished = {}
  /\ strayed = FALSE
  /\ resized = FALSE

Next ==
  \/ \E k \in Services, check \in Checks : Missed(k, check) \/ Live(k, check)
  \/ \E k \in Services, m \in 1..MaxResults : Snapshot(k, m)
  \/ \E host \in Range(HostOf) : GoToHostDetailedView(host)
  \/ BackFromHostDetailedView
  \/ \E k \in Services : ShowEvent(k)
  \/ \E graph \in Tabs : Expand(graph)
  \/ Collapse
  \/ Resize
  \/ Refresh
  \/ EventBackButton
  \/ Back

Spec == Init /\ [][Next]_vars

-----------------------------------------------------------------------------
(* Every field has the kind of value the code stores in it; an event shows one
   of the four codes of Event.js whatever the check returned. *)
TypeOK ==
  /\ results \in [Services -> Seq(Past)]
  /\ servicesLastStates \in [Services -> Event \cup {NoEvent}]
  /\ lists \in [Lists -> Seq(Services)]
  /\ attachedTo \in [Services -> SUBSET Lists]
  /\ evts \subseteq Services
  /\ trail \in Seq(Pages) /\ trail # <<>>
  /\ evt \in Services \cup {NoEvent}
  /\ tab \in Graphs \cup {NoEvent}
  /\ charts \in [Services -> SUBSET Graphs]
  /\ drawn \in [Graphs -> [service : Services, historicData : Seq(Past)]
                         \cup {NoEvent}]
  /\ x \in [Services -> Int]
  /\ changes \subseteq Services
  /\ Main!TypeOK
  /\ log \in Seq(Services \X States)
  /\ resent \in [Services -> 0..MaxHistoricData]
  /\ unfinished \subseteq Services
  /\ strayed \in BOOLEAN /\ resized \in BOOLEAN

(* The messages handled of a service that came after its last recovery: while
   there are any, the service has a problem. *)
ProblemOf(k) ==
  {i \in DOMAIN log : log[i][1] = k
     /\ \A j \in i..Len(log) : log[j][1] = k => log[j][2] # OK}

(* The events on #eventslist have a problem, each is there once, and the problem that
   began last is first. *)
ProblemsListed ==
  LET list == lists[EventsList]
  IN  /\ Range(list) = {k \in Services : ProblemOf(k) # {}}
      /\ \A i, j \in DOMAIN list :
           i < j => Min(ProblemOf(list[i])) > Min(ProblemOf(list[j]))

(* An event is on #eventslist when it shows a problem, but for those whose last message
   the error of a chart has ended. *)
ListedAsShown ==
  \A k \in Services \ unfinished : Known(k) =>
    (k \in Range(lists[EventsList]) <=> servicesLastStates[k].return_code # OK)

(* #eventslist is the problems there are: repeated problems, snapshots that come
   again and visits to the other pages neither add, nor lose, nor move an entry.  An
   error of a chart that ends addEvent() leaves the list behind what the event shows
   only until the next message of the service that is handled to the end. *)
ListShowsProblems == ProblemsListed /\ ListedAsShown

(* The list of the host page holds the events the page has to take off again,
   each once, and is empty while the page is not shown, so services of two
   hosts never mix. *)
HostPageCleared ==
  /\ \A i, j \in DOMAIN lists[HostList] :
       lists[HostList][i] = lists[HostList][j] => i = j
  /\ Range(lists[HostList]) = evts
  /\ Page # "#host-cockpit" => evts = {}
  /\ \A j, k \in evts : HostOf[j] = HostOf[k]

(* Unless the device's back button was used or an error ended show(), the details
   page is of one event: what is drawn, the rows, and no chart of another event
   that would be drawn over it when a message comes. *)
DetailsShowTheirEvent ==
  ~strayed => IF Page = "#event-details-cockpit"
             THEN /\ \A graph \in Graphs : drawn[graph].service = evt
                  /\ changes = {evt}
                  /\ \A k \in Services \ {evt} : charts[k] = {}
             ELSE changes = {}

(* The chart in the open tab is of the history the event has now: messages that
   come while it is closed, or while the page is not shown, are caught up with.
   The chart may be gone after an error, and an old one may be shown again after
   the back button of the device. *)
OpenChartCurrent ==
  ~strayed /\ Page = "#event-details-cockpit" /\ tab \in charts[evt]
    => drawn[tab] = [service |-> evt, historicData |-> HistoricData(evt)]

(* The entries of h that are older than the one before. *)
StepsBack(h) == {i \in DOMAIN h : i > 1 /\ h[i].timestamp < h[i - 1].timestamp}

(* The history of an event ends with what the event shows and runs forward in time
   but for one place each time the service was sent again, where the history of the
   snapshot follows the one held: what the charts make their intervals of. *)
HistoryLeadsToNow ==
  \A k \in Services : Known(k) =>
    LET event == servicesLastStates[k]
        h == event.historicData
    IN  /\ Len(h) \in 1..MaxHistoricData
        /\ Last(h).timestamp = event.timestamp
        /\ Cardinality(StepsBack(h)) <= resent[k]

(* The main page counts every message handled to the end, once, under its
   state, and its columns are the messages of the latest seconds, a quiet second
   repeating the last busy one. *)
MainPageCounts == Main!Shows([i \in DOMAIN log |-> log[i][2]])

-----------------------------------------------------------------------------
(* What the charts show of the histories events come to have, at any time the
   phone's clock may tell. *)

Histories == {HistoricData(k) : k \in {j \in Services : Known(j)}}
Clock(h) == 0..(Last(h).timestamp + 2)

(* The state at time t is that of the last entry made by then. *)
StateAt(h, t) == h[Max({i \in DOMAIN h : h[i].timestamp <= t})].return_code

SecondsIn(c, h, end) ==
  Cardinality({t \in h[1].timestamp..(end - 1) : StateAt(h, t) = c})

(* The time of each state is the seconds the service was in it, so the shares
   are between 0 and 100 and add up to 100.  A service sent again has a history
   that runs backwards: then only the sum is right. *)
OverviewExact ==
  \A h \in Histories : \A now \in Clock(h) : ~Throws(Overview, h) =>
    LET time == TimePerState(h, now)
        end == OverviewEnd(h, now)
    IN  /\ Forward(h) => \A c \in States : time[c] = SecondsIn(c, h, end)
        /\ time[0] + time[1] + time[2] + time[3] = end - h[1].timestamp

(* The boxes show the same seconds: neighbours differ, each box starts where the
   one before ends, and together they fill the chart but for less than a pixel
   a box. *)
EvolutionExact ==
  \A h \in Histories : \A now \in Clock(h) : Forward(h) =>
    LET boxes == MountStateChangesArray(h, now)
        end == RenderTime(h, now)
    IN  /\ \A c \in {boxes[j].value : j \in DOMAIN boxes} :
             Total([j \in DOMAIN boxes |->
                      IF boxes[j].value = c THEN boxes[j].duration ELSE 0])
               = SecondsIn(c, h, end)
        /\ \A j \in 2..Len(boxes) :
             /\ boxes[j].value # boxes[j - 1].value
             /\ boxes[j].timestamp = boxes[j - 1].timestamp + boxes[j - 1].duration
        /\ \A j \in DOMAIN boxes : boxes[j].pixels >= 0
        /\ Drawn(boxes) \in (GraphWidth - Len(boxes) + 1)..GraphWidth

(* The boxes of the chart on the page end inside it, however often it was drawn
   again, unless the window was resized. *)
EvolutionInView ==
  drawn[Evolution] # NoEvent /\ ~resized /\ Forward(drawn[Evolution].historicData)
    => x[drawn[Evolution].service] <= GraphWidth

(* A point of the performance chart stands at the entry it was measured in
   exactly when no entry has more metrics than one before it: renderHistoricGraph()
   leaves no gap for a metric an entry lacks. *)
PointsKeepTheirTime ==
  \A h \in Histories :
    (\A j \in DOMAIN Series(h) : \A n \in DOMAIN Series(h)[j] : Series(h)[j][n] = n)
      <=> \A i \in 2..Len(h) : Len(h[i].perf_data) <= Len(h[i - 1].perf_data)

-----------------------------------------------------------------------------
(* Event.js:1-5: an event "may be an ok, warning, critical or unknown event",
   and the charts index their counters with the codes of the history. *)
HistoryCodesKnown ==
  \A k \in Services : ~Throws(Overview, HistoricData(k))
=============================================================================

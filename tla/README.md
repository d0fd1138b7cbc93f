# Formal models of dogz

dogz shows the checks of a Nagios or Naemon server on a phone. This directory
holds TLA+ models of its program, the TLC configurations that check them on small
instances, and proofs checked by TLAPS. Paths are relative to the repository
(`src/`); `mw/` is `js/middleware/classes/`, `cl/` is `js/client/www/js/classes/`.

To check a module: `tlc -config MCX.cfg MCX.tla`; to check its proofs:
`tlapm X_proofs.tla`.

## 1. Inventory

```
Nagios --check--> dispatcher.c --zmq PUB/SUB--> middleware (node) --socket.io--> phone
                                                    |  \--push--> GCM
                                                    +-- /tmp/middleware-devices.json
```

| Component | Source | State | Operations | Talks to |
|---|---|---|---|---|
| event broker module | `broker/dispatcher.c` | `context`, `sender` | `handle_check` (with `start_connection`), `nebmodule_init`, `nebmodule_deinit` | Nagios calls it; publishes on ZMQ |
| subscriber | `mw/ZMQ.js` | a SUB socket | `connectRemote` | calls `Middleware.processMessage` |
| status board | `mw/CurrentStatuses.js` | last result and at most 20 results before it, per service | `updateStatus`, `getAll` | called by Middleware, ConnectionsManager |
| connections of phones | `mw/ConnectionsManager.js`, `mw/Connection.js` | dictionaries `connections`, `pendingConnections`; uuid and push id of each | new connection, `deviceuuid`, `pushid`, `disconnect`, `spreadMessage`, `stopListening` | socket.io events; sends the board to a new phone |
| push table | `mw/PushManager.js` | uuid -> push id, in memory and in a file | `addDevice`, `persistDevices`, `recoverDevices`, `sendAlert` | file system, GCM |
| middleware process | `mw/Middleware.js`, `index.js` | the managers above | `processMessage`, the new-connection callback, `run`, the end of the process | all of the above |
| events of the phone | `cl/EventsManager.js`, `cl/Event.js`, `cl/visual/EventVisualRepresentation.js` | the event of each service with its history; its views | `addEvent`, `attach`, `detach` | the lists of two pages, the counters, the charts |
| pages of the phone | `cl/HostDetailInterfaceController.js`, `cl/EventDetailInterfaceController.js`, `cl/MainInterfaceController.js` | events shown, charts that exist, the open tab, the trail of pages | show, hide, expand, collapse | jQuery Mobile, the charts |
| counters of the phone | `cl/visual/UpperCounters.js`, `cl/graphs/EventsLineGraph.js` | counts, a window of 60 s | `up`, `newEvent`, `refresh` | fed by `addEvent` and a timer |
| charts of an event | `cl/graphs/EventAvailOverviewGraph.js`, `EventAvailEvolutionGraph.js`, `EventPerformanceGraph.js`, `cl/MetricsParser.js`, `cl/Metric.js` | what is drawn; `x` of the boxes | `render`, `rerender`, `destroy` | the details page, Chartist |
| connection of the phone | `cl/IOSocketManager.js`, `cl/PushManager.js`, `cl/NetworkCockpit.js` | the socket, the push registration | start, connect, announce uuid and push id, reconnect | the middleware, the push service |
| configuration of the phone | `cl/ConfigInterfaceController.js` | the address stored | store and reload | restarts the application |
| helpers | `mw/Message.js`, `Utils.js`, `Logger.js`, `cl/DOMCacher.js` | none that matters | | |
| unused chart | `cl/graphs/ProblemChart.js` | | nothing creates it | |
| vendored libraries | `js/client/www/js/lib/`, `broker/include/` | | | |

What is hard in it:

- **No acknowledgement anywhere.** PUB/SUB drops silently; a phone sees a result
  live, in a snapshot, or not at all. What must hold is an order and an
  accounting of what can be lost, and that is what the properties say.
- **Two-step connection.** A phone gets the snapshot on connecting and live
  messages only after its uuid; `pushid` may come before, between, or after.
- **Asynchronous writes nobody waits for.** `fs.writeFile` calls overlap, and the
  process may end between truncation and write.
- **Errors in the middle of a handler.** Every library call of the broker module
  may fail; a chart that throws ends `addEvent` half way.
- **Pages left in ways the code does not see.** The device's back button.
- **Two ends of a socket that disagree.** The phone may be on a new socket while the
  middleware still holds the old one, and what it emits may wait in an engine that
  is still opening, arrive ahead of the uuid, after it, or never.
- **Clocks.** The charts compare the phone's clock with the server's timestamps.

The properties that make each component correct are those of section 4;
`PROJECT.json` lists the hazards at their lines and the properties that cover them.

## 2. Modules

| Module | Models | Notes |
|---|---|---|
| `Dispatcher` | the broker module and the ZMQ socket as it uses it | texts of checks are their numbers, and so are the context and the socket a check makes; each outcome of a library call is a disjunct; a subscriber is connected to one socket |
| `CurrentStatuses` | the status board | the nested dictionaries are one function on services; `log` is a history variable |
| `EventFeed` | abstract: what a phone is promised | a log and, per session, a snapshot and the position it joined at |
| `ConnectionsManager` | the dictionaries, Connection objects and socket buffers | `ImplementsFeed` maps it to `EventFeed`: the phase of a session is a function of the dictionaries |
| `PushManager` | the push table and its file | a call of `fs.writeFile` is two steps, open-with-truncation and write; calls interleave freely |
| `Middleware` | the process | `INSTANCE`s of the three managers over shared variables; an action is the conjunction of the calls one handler makes |
| `Phone` | the start of the application, its address, its engine and socket, the push registration | the engine's buffer while it opens; sockets are numbered as their transports open |
| `Dogz` | `Phone` and `Middleware` joined by the transport | extends `Middleware`, has an instance of `Phone`; a step of the transport is a step of both sides; they learn of the end of a socket at different times |
| `Loops` | what a loop over an array keeps, where it stops, what it adds up | recursive functions that take a set or a sequence where `SelectSeq`, `SetToSortSeq` and `FoldSeq` take an operator, which no prover can instantiate; `LoopsAgree` in `MCCockpit` checks that they are the same |
| `EventCharts` | the data of an event and what each chart makes of a history | operators only: times per state, boxes, points |
| `EventsLineGraph` | the columns of the last seconds and the counters | fed by the messages handled to the end |
| `Cockpit` | the phone's screen: events, lists, host page, details page with its tabs and charts | extends `EventCharts`, has an instance of `EventsLineGraph`; messages are the results of a service in order, some missed, some sent again in snapshots |

`MC*` modules give constants their values for TLC. `*_proofs` modules hold
theorems; `SequenceLemmas` holds the facts about sequences and sums they share. Definitions keep
the names of the code (`UpdateStatus` is `updateStatus()`, and so on);
`PROJECT.json` maps each to its lines. A definition described as "a mutated form" is
a plausible slip of the code next to it, kept to show that the property it breaks
looks at that code.

An action is one run of a handler to its end: node and the phone's web view run
one callback at a time, and Nagios calls one handler of a module at a time. The
only steps that interleave inside an operation are those outside that thread: the
steps of `fs.writeFile`, the transport of socket.io and of ZMQ, and the wait of
`zmq_ctx_destroy`. A handler that a chart's error leaves half way is an action
with the rest of the handler missing (`RerenderThrows`, the failing branch of
`ShowEvent`).

`Cockpit` is a module of its own and not a part of `Dogz`: the order it relies on
(messages of a service never go back while the application runs) is what
`PhoneNeverGoesBack` shows of `Dogz`; it takes any of them to be missing, and
snapshots to come at any time.

What is abstracted: texts (output, titles of notifications, log lines), socket
addresses, GCM's answer (the code ignores it), the look of pages. A metric is a
number, negative when its text cannot be read. Percentages are kept as times with
their total. In the middleware the results of a service are told apart by their
number in `timestamp`; only the charts compare timestamps as times, and there
they are seconds.

## 3. Assumptions about libraries

- ZMQ: a message sent on a bound PUB socket with a connected subscriber is
  queued up to the high water mark and dropped silently otherwise; what is queued
  arrives in order or dies with the connection. The port is bound by one socket at
  a time. `zmq_ctx_destroy` waits until the sockets of its context are closed and
  what they published is gone (no linger is set).
- socket.io, server: emitted messages arrive in order, or the socket ends and
  `disconnect` is reported. `disconnect()` of the server reports it at once. A
  socket whose phone is gone ends by a missed heartbeat.
- socket.io, phone: `io.connect()` makes an engine at once. What is emitted while an
  engine opens waits in its buffer and leaves when the transport is open; the
  `connect` event comes after that; what is emitted to a closed engine is lost;
  the library reconnects with a new engine.
- `fs.writeFile`: truncates on open, then writes at the beginning. Writing over
  another text may leave a text that is no JSON. A call without a callback that
  fails rethrows, which ends the process (`Crash`).
- jQuery Mobile: `changePage` appends to the trail of pages and fires
  `pagebeforehide` on the page left; the device's back button steps back on the
  trail. A collapsible set has at most one open member, and opening one closes
  the other.
- Chartist: `detach` leaves the drawing where it is; a chart that exists is drawn
  again, events and all, when the window is resized.
- The push service answers a run of the application at most once, at any time.
- The phone's clock: any time (`OverviewExact`, `EvolutionExact` quantify over it);
  in `XAfter` alone it is taken to tell the time of the newest result.

## 4. Runs

| Run | Properties | Shows | Bounds, and why they are enough |
|---|---|---|---|
| `status_board` | `TypeOK`, `HistoryIsWindow` | the board is an exact digest of what was processed | 2 services, history of 2, 4 results each: it fills, is full, and is cut |
| `connections` | `TypeOK`, `SocketsAccounted`, `FeedExact`, `ImplementsFeed`, `EveryMessageArrives` | no Connection is left behind; a phone gets its snapshot and then exactly what is spread while it is ready | 2 sockets, 3 broadcasts: one phone pending while another is ready, a broadcast in each phase |
| `push_table` | `TypeOK`, `FileIsPastTable`, `PersistedWhenIdle`, `UnparsableOnlyMidWrite`, `RestartForgetsAtMostOne` | what the file can hold, and what a restart loses | 2 devices with 2 ids, 3 overlapping writes, 2 crashes: a recovered table is rewritten and recovered again |
| `middleware` | `TypeOK`, `AlertsExact`, `StreamOrdered`, `BehindOnlyByPendingGap` | which results are pushed; a phone never goes back in time; the one way it can lag | every sequence of 4 results of 5 kinds of one service, one socket, one write, one crash: soft, hard, muted and recovered problems, a result in each phase of a connection and lost over a restart. More services and sockets are covered by the proofs |
| `pending_gap` | `ReadyPhoneIsCurrent` (violated) | a result spread between snapshot and uuid is not sent to that phone | 2 results of one service |
| `dispatcher` | `TypeOK`, `HeardInOrder`, `OnlyOverrunsMissed`, `NoSocketLeftBehind`, `DeinitWaitsOnlyForReader` | what a subscriber hears is in order whatever fails, and it misses only what the pipe has no room for; an unload leaves no socket and a free port; the one thing that keeps it from ending is a subscriber that does not read | 5 checks, a pipe of 2: failed connections that lose contexts, a failed bind, a full pipe, a subscriber that comes late, goes or stalls, and a reload between checks |
| `dispatcher_bind` | `ClaimedMeansBound` (violated) | a failed bind is taken for a connection ever after | as above |
| `dispatcher_dump` | `UndumpedNotPublished` (violated) | a check that cannot be dumped is published as `events (null)` | as above |
| `cockpit_list` | `TypeOK`, `ListShowsProblems`, `HistoryLeadsToNow`, `MainPageCounts`, `OverviewExact`, `EvolutionExact`, `PointsKeepTheirTime` | the list of problems, the counters and the columns are exact; the history ends in the present; what the three charts make of every history that comes up, by any clock | 2 services, 3 results, 3 messages, a history of 3, 2 seconds and 2 columns, a chart 10 pixels wide: problem, recovery and problem, a snapshot after a missed result and one sent again, a column that leaves the window, boxes whose widths are rounded |
| `cockpit_pages` | `HostPageCleared`, `DetailsShowTheirEvent`, `OpenChartCurrent`, `EvolutionInView` | what the two pages show along every trail | 3 services on 2 hosts, 2 results, 3 messages, trails of 4 pages, all tabs, one resize: two events one after the other, messages with a tab open, closed and on another page, charts that throw |
| `cockpit_codes` | `HistoryCodesKnown` (violated) | a snapshot brings codes into the history that are none of the four states | as `cockpit_list` |
| `registration` | `DogzTypeOK`, `RegisteredExactlyWhenEarly`, `PhoneNeverGoesBack`, `EarlyIdsAreStored` | which phones get into the push table; what the phone holds of a service never goes back, across sockets and restarts | one phone with 2 sockets and 3 runs, 2 results, 1 write, 1 crash: a reconnection before the old socket is noticed, an id before, during and after the opening of an engine, a reload |

`CHECK_DEADLOCK FALSE` is set where a bound (results, messages, checks, pages,
sockets) lets a behaviour end; the program itself has no final state.

Properties worth reading with their limits:

- `AlertsExact` is the code's meaning of a new problem: the first result of a
  service after a start never alerts, and neither does a problem that was muted
  (downtime, acknowledgement) when it turned hard.
- `HistoryIsWindow`: the history leaves out the very first result of a service.
- `BehindOnlyByPendingGap` is the strongest form of "a phone is current" the code
  gives; `pending_gap` refutes the full one.
- `RegisteredExactlyWhenEarly` says who is in the push table: a phone whose push
  id was on its way ahead of its uuid on some socket, and no other. The phone
  emits the id once a run, so an answer of the push service after `connect`, or
  while no engine can take it, is in no table until another run gets it there earlier.
- `DetailsShowTheirEvent` and `OpenChartCurrent` hold while the trail was not
  `strayed` from: once the back button of the device was used, or the error of a
  chart ended `show()`, charts and rows of an event outlive its page.
- `HistoryLeadsToNow` allows one step back in time for each time a service was sent
  again (`resent`): after a reconnection the snapshot's history is appended to the
  one held. `OverviewExact`, but for its sum, is stated for histories without one.
- `EvolutionInView` excludes a resized window: Chartist then draws the boxes
  again from where they ended.
- `PointsKeepTheirTime` says exactly which histories the performance chart shows
  at their times: those in which no entry has more metrics than the one before.
- `MainPageCounts` speaks of messages `addEvent` handled to the end. A message during
  which a chart throws is not one of them: the counters never know of it.
  `ListShowsProblems` says of the list that it is the problems of the messages handled
  (`ProblemsListed`), and that it differs from what the event of a service shows only
  between such an error and the next message of the service that is handled
  (`ListedAsShown`; the services concerned are `unfinished`).
- `DeinitWaitsOnlyForReader` does not say that `nebmodule_deinit` returns: it need not,
  and the property names the only reason. It holds of a module that closes the socket
  before it destroys the context, and not the other way round.
- `OnlyOverrunsMissed` speaks of a subscriber that stays connected, since its last
  connection; what a pipe that is full, a subscriber that is not there or an unbound
  socket (`dispatcher_bind`) loses is lost without a trace.

### Findings

1. `mw/ConnectionsManager.js:106`: results spread while a connection is pending
   are not sent to it (`pending_gap`).
2. `broker/dispatcher.c:101`: after a failed `zmq_bind` the socket is kept,
   nothing binds again, and messages are logged as sent (`dispatcher_bind`).
3. `broker/dispatcher.c:165`: the test after `json_dumps` looks at the wrong
   variable (`dispatcher_dump`).
4. `cl/Event.js:88`: return codes are normalised in the message but not in its
   history (`cockpit_codes`); the availability chart throws on them.

### Fairness

- `ConnectionsManager`: weak fairness of `Deliver(s)`. socket.io either delivers
  or closes the socket after a lost heartbeat; both discharge
  `EveryMessageArrives`.
- `Dispatcher`: weak fairness of the return of `nebmodule_deinit`, which runs on when
  `zmq_ctx_destroy` can return. None is assumed of the subscriber: one that neither
  reads nor disconnects keeps Nagios from stopping, and `DeinitWaitsOnlyForReader`
  says that nothing else does.
- `Dogz`: weak fairness of the `connect` event on a socket both sides hold, of the
  handling of what arrived (`Handle`), of the end of a write (`Persist`) and of the
  missed heartbeat of a socket the phone has left (`NoticeEnd`). None is assumed of
  the user, the push service, the network or the start of either program.
- The other specifications need none: they have safety properties only.

## 5. Proofs

Every theorem holds for all values of the constants that satisfy the named
assumptions of the modules: ids are not `Null`, `NoStatus` and `NoEvent` are no
status and no event, the set of services is finite (the board sent to a phone is a
sequence, the list on the page too), a check is a record of numbers and metrics, bounds
are naturals (those of the history, the trail and the window of columns not zero), the
sockets of the phone are numbered and its uuid is one of the devices. TLC evaluates
the assumptions in the runs.

| Theorem | States |
|---|---|
| `CurrentStatuses_proofs!TypeCorrect`, `BoardIsDigest` | `TypeOK`, `HistoryIsWindow` |
| `ConnectionsManager_proofs!TypeCorrect`, `SocketsAlwaysAccounted`, `FeedAlwaysExact` | `TypeOK`, `SocketsAccounted`, `FeedExact` |
| `ConnectionsManager_proofs!ManagerImplementsFeed` | `Spec => EventFeed`'s `Spec` under the refinement mapping |
| `PushManager_proofs!TypeCorrect`, `FileAlwaysPastTable`, `AlwaysPersistedWhenIdle`, `AlwaysUnparsableOnlyMidWrite`, `RestartAlwaysForgetsAtMostOne` | the properties of `push_table` |
| `Dispatcher_proofs!TypeCorrect`, `HeardAlwaysInOrder`, `OnlyOverrunsEverMissed`, `NoSocketEverLeftBehind` | `TypeOK`, `HeardInOrder`, `OnlyOverrunsMissed`, `NoSocketLeftBehind` |
| `Middleware_proofs!TypeCorrect`, `StreamAlwaysOrdered`, `AlertsAlwaysExact`, `AlwaysBehindOnlyByPendingGap` | the properties of `middleware` |
| `Middleware_proofs!PushTableInProcess`, `PhonesInProcess` | the process implements `PushManager`'s specification, and `ConnectionsManager`'s but for its fairness |
| `Dogz_proofs!DogzTypeCorrect`, `PhoneNeverGoesBackAlways`, `AlwaysRegisteredExactlyWhenEarly` | the safety properties of `registration` |
| `Dogz_proofs!MiddlewareKeepsItsSpec`, `MiddlewareKeepsItsPromises` | `DogzSpec => Middleware`'s `Spec`, and so its three properties |
| `Cockpit_proofs!TypeCorrect`, `HistoryAlwaysLeadsToNow`, `ListAlwaysShowsProblems`, `MainPageAlwaysCounts`, `OverviewAlwaysExact`, `EvolutionAlwaysExact`, `PointsAlwaysKeepTheirTime` | the properties of `cockpit_list` |
| `Cockpit_proofs!HostPageAlwaysCleared`, `DetailsAlwaysShowTheirEvent`, `OpenChartAlwaysCurrent`, `EvolutionAlwaysInView` | the properties of `cockpit_pages` |

Every safety property of a run that passes is the statement of a theorem.

The arguments:

- **Board.** `HistoryIsWindow` with `TypeOK` is inductive; the work is in the lemmas
  about `Latest`: appending and cutting commute with taking the newest n.
- **Connections.** `Accounted` adds to the accounting that a socket that has
  not connected has no uuid: without it `deviceUUID # Null` cannot be concluded
  for pending sockets. `FeedInv` says of every
  socket, held or not, that what it has received and has under way is what it is
  owed; each handler changes that equation for one socket on both sides, or, for a
  broadcast, for all ready ones by the same message. The refinement
  uses `FeedInv` to show that a delivery is the feed's next message.
- **Push table.** None of the properties is inductive. `Orderly` describes the
  three situations in which calls did not overlap (nothing under way; one call not
  yet opened, the file one registration behind; one call opened, the file empty) and,
  after a crash, the two it leaves; `Remembered` says that
  every text on its way to the file is a table that existed.
- **Broker.** `InOrder`: what was heard followed by the pipe is increasing and not
  above `checks`. Publishing appends a larger number or nothing, receiving leaves the
  concatenation as it is (`MoveHead`), losing the pipe takes a prefix. `Owned`: the
  only socket there ever is is the one of a loaded module's `sender`, the port has it or
  nothing, and a loaded module's subscriber is connected to it. So `nebmodule_deinit`
  closes all there is (a context that was lost never had a socket, since `sender` would
  have kept the next check from making another), and `handle_check` publishes to
  the socket the subscriber is on.
- **Middleware.** Three invariants on top of the types. `StreamInv`: the board is never
  ahead of Nagios, a new socket has no stream, and every stream is ordered and
  holds nothing Nagios has not produced; a snapshot is ordered because it has each
  service once, a live message because it is newer than all there is. `AlertsInv`: the
  board holds the last result of each log, so `hasChanged` compares the last two, and a
  notification is added exactly when `StartsProblem` turns true of the new
  position. `GapInv`: an open socket is in one of the dictionaries; that a
  snapshot lists every service is a counting argument on `Orderings`.
  `PushTableInProcess` and `PhonesInProcess` carry the theorems about the
  components over to the process.
- **Details page.** `ChartsOfPage`: away from the details page no event has a
  chart, on it only its event has; so the message that draws a visible chart draws
  it for the event of the page, and `show()` renders all three. The type of the
  data is needed only to tell an event from `undefined`.

- **Phone and middleware.** `MiddlewareStep`: whatever the composition does is a step of
  `Middleware` or a stutter, so its theorems hold here as they stand. That the phone
  never goes back is `ShownInv`: what it shows is no newer than the board (`ShownBehind`),
  what is under way on any socket is no newer than the board (`OutboxBehind`), what is
  under way on the socket the phone is on is no older than what it shows (`OutboxAhead`).
  The first two are what makes the third true of a new socket, whose snapshot is the
  board, whatever is still under way on the old one. A middleware that was
  restarted does not know a service; then all that holds is that nothing shown is newer
  than what Nagios has produced, and it is enough, since what comes next is newer. For the push table, `LinkInv`: a
  socket not yet open is blank on both sides, the uuid is under way at most once and
  nothing but the id `early` ahead of it, and until the uuid is handled the id the
  `Connection` has is the one that went ahead or is still to come. `TableInv` then
  says it of the table, of the file and of every write under way, since a restart
  takes the table from the file, and the file from any of the writes.
- **Types of the phone.** `TypeOK` is not inductive: that the code of an event is one of
  four is, but that a list or a chart is of events the phone has needs `DomainInv`: only
  known events are attached or have charts, and the details page is on the trail only
  once it has an event.
- **History.** `HistoryInv` says of each service that its results run forward and that
  the history of its event ends with what the event shows, has no entry later than the
  last result and no more steps back in time than the service was sent again.
  `CappedIsEnd` (what is cut off is the beginning), `StepsConcat` (where two histories
  meet there is at most one step back, none if the first is over by then) and
  `StepsCut` carry it over a message.
- **List of problems.** `ListInv` adds that an event says it is attached exactly when it
  is on the list, which is what `addEvent` decides by. `ProblemAppend` says what
  one more message does to the problem there is; the order of the list follows as a
  problem that begins has begun after all others. The list of the host page is another
  list, and `HostPageAlwaysCleared` is inductive with the types: both `hide()` of
  the page and the back button pass through `Leave`. `NotedAsShown` says that the note
  of being on the list follows the code the event shows, unless its last message was not
  finished.
- **Counters and columns.** `MainInv` says, besides the property, how the messages of the
  running second are counted and that there is a column to plot exactly if there are any.
  Three facts about `Tally` carry it: a message counts in its second and in no
  second before, the seconds that are over keep their columns, a quiet one repeats
  the last.
- **Charts.** The sums are over histories of any length, so they go by induction on the
  entries: partial sums with the claim about them form a subset of the naturals,
  which is shown to be all of them. `PartsAreSeconds`: the time of a state is the
  number of the seconds at which the last entry not later than them has that code
  (`StretchCounted` adds one interval). `StartsTellState`: the entries the boxes
  start with tell the same state at every second as all entries do, because
  no state begins between one of them and the next. `FloorsFill`: each rounded width
  loses less than a pixel. `PointsStand`: numbering the points that exist
  one after the other leaves each at its entry exactly if none before it is missing.
  `ViewInv` is what keeps the boxes on the page between two times they are drawn:
  `this.x` is where the chart that is shown ends.
- **Induction.** The library's induction theorems take an operator and cannot be used;
  where a fact is proved for every length, the lemma defines the set of the lengths
  it holds for and cites `NatSetInduction` of `SequenceLemmas`.

Model-checked only: the three liveness properties (`EveryMessageArrives`,
`DeinitWaitsOnlyForReader`, `EarlyIdsAreStored`), which are beyond the prover. `LoopsAgree`, that
the loops are the operators of the libraries, is checked for short sequences; no proof
uses it, the models are written with the loops. What the violation runs refute is
refuted by their counterexamples.

## 6. Not modelled

- The memory of a context that `start_connection` loses when it is called again after a
  failed `zmq_socket` (`broker/dispatcher.c:51`): such contexts are in the model
  (`contexts`) and never destroyed, as in the code; that there are some is not a property.
- `onlyHard` (never set; `problem_has_been_acknowledged`, which it would read, is not
  among the properties `Event` copies) and `totalProblems` (never read elsewhere).
- No callers: `createPublisher`, `sendEvent`, `Connection.connect`,
  `getPushRegistrationIds`, `unregister`, `disconnect` and `pendingPush` of the phone,
  `ProblemChart`.
- A browser without a `device.uuid`, which is given a random one (`IOSocketManager.js:58`): the phone
  of the models has one it keeps.
- The grammar of performance data in `MetricsParser` beyond whether a value can be
  read; labels, units and thresholds are copied to the page.
- Helpers (`Message`, `Utils`, `Logger`, `DOMCacher`): no state that matters.
- Vendored libraries, build and container files, images. jQuery Mobile's
  unminified source alone is most of the JavaScript in the repository. Of the program's
  own code the models cover about seven lines in ten.

## 7. Plan

Done: every component that keeps state of its own is modelled, checked, and composed
where components interact (`Middleware`, `Dogz`, `Cockpit` with its instances).

Proved: every safety property of the passing runs, the refinement of the feed, and that
the process and its composition with the phone implement the specifications of their parts.

Next:

1. An abstract specification of the phone's screen (what has been told of each
   service, and the problems in the order they began), which `Cockpit` implements.
2. The theorems about the push table and the connections stated of the process
   itself, from `PushTableInProcess` and `PhonesInProcess`.
3. Shorter proofs of the charts: lemmas on partial sums shared by the overview, the
   boxes and the columns.

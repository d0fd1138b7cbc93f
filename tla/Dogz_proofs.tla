------------------------------ MODULE Dogz_proofs ------------------------------
(***************************************************************************)
(* Proofs about a phone and the middleware joined by their transport, for  *)
(* every set of services, any number of sockets, starts, results and       *)
(* restarts: the middleware in the composition is the one of Middleware,   *)
(* what the phone shows never goes back in time, and the push table has the*)
(* phone exactly if an id went ahead of its uuid.                          *)
(***************************************************************************)
EXTENDS Dogz, Middleware_proofs

(* The phone numbers the sockets the middleware has. *)
LEMMA AppSockets == App!SocketNumbers = Sockets
BY SocketsAssumption DEF App!SocketNumbers

(* What the phone may have under way: the two kinds of announcement. *)
LEMMA EmitsAre ==
  ASSUME NEW m \in App!Emits
  PROVE  \/ m.event = "pushid" /\ m.id \in PushIds
         \/ m.event = "deviceuuid" /\ m.id = DeviceUUID
BY DEF App!Emits

(* What each step of the composition is to the middleware: a step of Middleware,
   or nothing. *)
LEMMA MiddlewareStep ==
  ASSUME DogzTypeOK, [DogzNext]_dogzVars
  PROVE  [Next]_vars
<1>1. CASE PhoneStep
  BY <1>1 DEF PhoneStep
<1>2. CASE ServerStep
  BY <1>2 DEF ServerStep, Next
<1>3. ASSUME NEW s \in Sockets, Arrive(s) PROVE Next
  BY <1>3 DEF Arrive, Next
<1>4. ASSUME NEW s \in Sockets, Handle(s) PROVE Next
  <2> DEFINE m == Head(uplink[s])
  <2>1. uplink[s] \in Seq(App!Emits) /\ uplink[s] # <<>>
    BY <1>4, AppSockets DEF Handle, App!Handled, DogzTypeOK, App!TypeOK
  <2>2. m \in App!Emits
    BY <2>1, HeadTailProperties
  <2>3. \/ m.event = "pushid" /\ SetPushUUID(s, m.id)
        \/ m.event = "deviceuuid" /\ SetDeviceUUID(s, m.id)
    BY <1>4 DEF Handle
  <2> HIDE DEF m
  <2>4. CASE m.event = "pushid" /\ SetPushUUID(s, m.id)
    <3>1. m.id \in PushIds
      BY <2>2, <2>4, EmitsAre
    <3> QED
      BY <2>4, <3>1 DEF Next
  <2>5. CASE m.event = "deviceuuid" /\ SetDeviceUUID(s, m.id)
    <3>1. m.id \in DeviceIds
      BY <2>2, <2>5, EmitsAre, DeviceAssumption
    <3> QED
      BY <2>5, <3>1 DEF Next
  <2> QED
    BY <2>3, <2>4, <2>5
<1>5. ASSUME NEW s \in Sockets, Hear(s) PROVE Next
  BY <1>5 DEF Hear, Next
<1>6. CASE UNCHANGED dogzVars
  BY <1>6 DEF dogzVars
<1> QED
  BY <1>1, <1>2, <1>3, <1>4, <1>5, <1>6 DEF DogzNext

-----------------------------------------------------------------------------
(* What is emitted goes to the end of what is under way, or is lost. *)
LEMMA EmitTypes ==
  ASSUME App!TypeOK, NEW m \in App!Emits, App!Emit(m)
  PROVE  buffer' \in Seq(App!Emits) /\ uplink' \in [Sockets -> Seq(App!Emits)]
<1>1. \A q \in Seq(App!Emits) : Append(q, m) \in Seq(App!Emits)
  BY AppendProperties
<1> QED
  BY <1>1, AppSockets DEF App!TypeOK, App!Emit

(* Only the push id of this run waits for a transport: the uuid is emitted when
   one is open. *)
BufferInv ==
  buffer # <<>> =>
    /\ engine = "opening"
    /\ registrationId # Null
    /\ buffer = <<[event |-> "pushid", id |-> registrationId]>>

(* Every step keeps what waits in the engine. *)
LEMMA BufferStep ==
  ASSUME DogzTypeOK, BufferInv, [DogzNext]_dogzVars
  PROVE  BufferInv'
<1> USE DEF BufferInv
<1>1. ASSUME NEW p \in PushIds, App!Registered(p) PROVE BufferInv'
  <2>1. p # Null /\ buffer = <<>>
    BY <1>1, DeviceAssumption DEF App!Registered
  <2>2. registrationId' = p /\ engine' = engine
    BY <1>1 DEF App!Registered
  <2>3. buffer' = IF engine = "opening"
                  THEN Append(buffer, [event |-> "pushid", id |-> p])
                  ELSE buffer
    BY <1>1 DEF App!Registered, App!Emit
  <2> QED
    BY <2>1, <2>2, <2>3
<1>2. CASE App!Connect
  BY <1>2 DEF App!Connect, App!Emit
<1>3. CASE App!Restart \/ App!SetMiddlewareConfiguration
  BY <1>3 DEF App!Restart, App!SetMiddlewareConfiguration, App!Run
<1>4. CASE App!Close \/ App!Reconnect
  BY <1>4 DEF App!Close, App!Reconnect
<1>5. ASSUME NEW s \in Sockets, Arrive(s) PROVE BufferInv'
  BY <1>5 DEF Arrive, App!Open
<1>6. ASSUME NEW s \in Sockets, Handle(s) \/ Hear(s) PROVE BufferInv'
  BY <1>6
  DEF Handle, Hear, App!Handled, App!NewMessageArrived, App!linkVars, App!appVars
<1>7. CASE UNCHANGED phoneVars
  BY <1>7 DEF phoneVars
<1> QED
  BY <1>1, <1>2, <1>3, <1>4, <1>5, <1>6, <1>7
  DEF DogzNext, PhoneStep, ServerStep, dogzVars

(* Every step of the composition keeps the types of the phone. *)
LEMMA PhoneTypes ==
  ASSUME DogzTypeOK, BufferInv, [DogzNext]_dogzVars
  PROVE  App!TypeOK'
<1> USE AppSockets DEF App!TypeOK
<1>0. TypeOK /\ App!TypeOK
  BY DEF DogzTypeOK
<1>1. <<>> \in Seq(App!Emits)
  OBVIOUS
<1>2. ASSUME NEW a \in Addresses \cup {Null}, App!Run(a) PROVE App!TypeOK'
  BY <1>0, <1>1, <1>2, RunsAssumption DEF App!Run
<1>3. CASE App!Restart
  BY <1>0, <1>2, <1>3 DEF App!Restart
<1>4. CASE App!SetMiddlewareConfiguration
  BY <1>2, <1>4 DEF App!SetMiddlewareConfiguration
<1>5. ASSUME NEW p \in PushIds, App!Registered(p) PROVE App!TypeOK'
  <2>1. [event |-> "pushid", id |-> p] \in App!Emits
    BY DEF App!Emits
  <2>2. buffer' \in Seq(App!Emits) /\ uplink' \in [Sockets -> Seq(App!Emits)]
    BY <1>0, <1>5, <2>1, EmitTypes DEF App!Registered
  <2> QED
    BY <1>0, <1>5, <2>2 DEF App!Registered
<1>6. CASE App!Connect
  <2>1. [event |-> "deviceuuid", id |-> DeviceUUID] \in App!Emits
    BY DEF App!Emits
  <2>2. buffer' \in Seq(App!Emits) /\ uplink' \in [Sockets -> Seq(App!Emits)]
    BY <1>0, <1>6, <2>1, EmitTypes DEF App!Connect
  <2> QED
    BY <1>0, <1>6, <2>2 DEF App!Connect, App!appVars
<1>7. CASE App!Close \/ App!Reconnect
  BY <1>0, <1>1, <1>7 DEF App!Close, App!Reconnect, App!appVars
<1>8. ASSUME NEW s \in Sockets, Arrive(s) PROVE App!TypeOK'
  <2>1. App!Open(s)
    BY <1>8 DEF Arrive
  <2>2. s \in 0..MaxSockets
    BY SocketsAssumption
  <2>3. early' \in [Sockets -> PushIds \cup {Null}]
    <3>1. CASE buffer = <<>>
      BY <1>0, <2>1, <3>1 DEF App!Open
    <3>2. CASE buffer # <<>>
      <4>1. Head(buffer).id = registrationId /\ registrationId \in PushIds
        BY <1>0, <3>2 DEF BufferInv
      <4> QED
        BY <1>0, <2>1, <3>2, <4>1 DEF App!Open
    <3> QED
      BY <3>1, <3>2
  <2> QED
    BY <1>0, <1>1, <2>1, <2>2, <2>3 DEF App!Open, App!Flushed, App!appVars
<1>9. ASSUME NEW s \in Sockets, Handle(s) PROVE App!TypeOK'
  <2>1. App!Handled(s)
    BY <1>9 DEF Handle
  <2>2. Tail(uplink[s]) \in Seq(App!Emits)
    BY <1>0, <2>1, HeadTailProperties DEF App!Handled
  <2> QED
    BY <1>0, <2>1, <2>2 DEF App!Handled, App!appVars
<1>10. ASSUME NEW s \in Sockets, Hear(s) PROVE App!TypeOK'
  <2> DEFINE e == EventOf(Head(outbox[s]))
  <2>1. App!NewMessageArrived(e.service, e.timestamp) /\ Deliver(s)
    BY <1>10 DEF Hear
  <2>2. Head(outbox[s]) \in Messages
    BY <1>0, <2>1, HeadTailProperties
    DEF Deliver, Phones!Deliver, TypeOK, Phones!TypeOK
  <2>3. e.timestamp \in Nat
    BY <2>2, EventOfMessage DEF Board!Event
  <2> HIDE DEF e
  <2> QED
    BY <1>0, <2>1, <2>3 DEF App!NewMessageArrived, App!linkVars
<1>11. CASE UNCHANGED phoneVars
  BY <1>0, <1>11 DEF phoneVars
<1> QED
  BY <1>3, <1>4, <1>5, <1>6, <1>7, <1>8, <1>9, <1>10, <1>11
  DEF DogzNext, PhoneStep, ServerStep, dogzVars

-----------------------------------------------------------------------------
(* What the invariants of the composition rest on. *)
DogzTypeInv == DogzTypeOK /\ BufferInv

(* Both programs start with fields of their kinds. *)
LEMMA DogzTypeInvInit == DogzInit => DogzTypeInv
<1> SUFFICES ASSUME DogzInit PROVE DogzTypeInv
  OBVIOUS
<1>1. TypeOK
  BY TypesInit DEF DogzInit
<1>2. <<>> \in Seq(App!Emits)
  OBVIOUS
<1>3. App!TypeOK
  BY <1>2, AppSockets, SocketsAssumption, RunsAssumption
  DEF DogzInit, App!Init, App!TypeOK
<1>4. BufferInv
  BY DEF DogzInit, App!Init, BufferInv
<1> QED
  BY <1>1, <1>3, <1>4 DEF DogzTypeInv, DogzTypeOK

(* Every step keeps them. *)
LEMMA DogzTypeInvStep ==
  ASSUME DogzTypeInv, [DogzNext]_dogzVars
  PROVE  DogzTypeInv'
BY MiddlewareStep, TypesStep, PhoneTypes, BufferStep DEF DogzTypeInv, DogzTypeOK

(* The fields of both programs have their kinds, and an engine that opens holds at
   most the push id, at every time. *)
THEOREM DogzTypeInvAlways == DogzSpec => []DogzTypeInv
BY DogzTypeInvInit, DogzTypeInvStep, PTL DEF DogzSpec

(* Every reachable state of the composition is well typed on both sides. *)
THEOREM DogzTypeCorrect == DogzSpec => []DogzTypeOK
BY DogzTypeInvAlways, PTL DEF DogzTypeInv

(* Whatever the phone does, the middleware keeps its specification: what is
   proved of Middleware holds of the composition. *)
THEOREM MiddlewareKeepsItsSpec == DogzSpec => Spec
<1>1. DogzInit => Init
  BY DEF DogzInit
<1>2. DogzTypeInv /\ [DogzNext]_dogzVars => [Next]_vars
  BY MiddlewareStep DEF DogzTypeInv
<1> QED
  BY <1>1, <1>2, DogzTypeInvAlways, PTL DEF DogzSpec, Spec

(* With a phone that starts, connects and is configured as its program does, the board
   still feeds every phone in order, the notifications are the problems that start,
   and a ready phone is behind only by results spread while it was pending. *)
THEOREM MiddlewareKeepsItsPromises ==
  DogzSpec => [](StreamOrdered /\ AlertsExact /\ BehindOnlyByPendingGap)
BY MiddlewareKeepsItsSpec, StreamAlwaysOrdered, AlertsAlwaysExact,
   AlwaysBehindOnlyByPendingGap, PTL

-----------------------------------------------------------------------------
(* What is on its way to a socket is a list of results of some service. *)
LEMMA OutboxEvents ==
  ASSUME TypeOK, NEW s \in Sockets, NEW i \in DOMAIN outbox[s]
  PROVE  /\ EventOf(outbox[s][i]) \in Board!Event
         /\ EventOf(outbox[s][i]).service \in Services
         /\ EventOf(outbox[s][i]).timestamp \in Nat
<1>1. outbox[s][i] \in Messages
  BY DEF TypeOK, Phones!TypeOK
<1> QED
  BY <1>1, EventOfMessage DEF Board!Event

(* The end of an ordered stream is ordered, and behind Nagios as the whole is. *)
LEMMA OrderedSuffix ==
  ASSUME NEW q \in Seq(Messages), NEW t \in Seq(Messages), NEW p,
         Ordered(q \o t), Produced(q \o t, p)
  PROVE  Ordered(t) /\ Produced(t, p)
<1>1. Len(q) \in Nat /\ Len(t) \in Nat /\ DOMAIN t = 1..Len(t)
  BY LenProperties
<1>2. \A i \in DOMAIN t :
        Len(q) + i \in DOMAIN (q \o t) /\ (q \o t)[Len(q) + i] = t[i]
  BY <1>1, ConcatProperties
<1>3. Produced(t, p)
  BY <1>2 DEF Produced
<1>4. ASSUME NEW i \in DOMAIN t, NEW j \in DOMAIN t, i < j
      PROVE  Len(q) + i < Len(q) + j
  BY <1>1, <1>4
<1>5. Ordered(t)
  BY <1>2, <1>4 DEF Ordered
<1> QED
  BY <1>3, <1>5

(* It is a part of the stream of the socket, so it is in order and produced. *)
LEMMA OutboxOrdered ==
  ASSUME TypeOK, StreamInv, NEW s \in Sockets
  PROVE  Ordered(outbox[s]) /\ Produced(outbox[s], produced)
<1>1. received[s] \in Seq(Messages) /\ outbox[s] \in Seq(Messages)
  BY DEF TypeOK, Phones!TypeOK
<1> QED
  BY <1>1, OrderedSuffix DEF StreamInv, StreamsOrdered, Stream

(* What the board shows, it shows with a number. *)
LEMMA BoardNumbers ==
  ASSUME TypeOK
  PROVE  /\ produced \in [Services -> Nat]
         /\ \A k \in Services : Board!Known(k) => statuses[k].event.timestamp \in Nat
BY MaxEventsAssumption
DEF TypeOK, Board!TypeOK, Board!Known, Board!Status, Board!Event

(* What a handler does to the numbers: Nagios and the board go on together, the
   board forgets, or nothing changes. *)
LEMMA NumbersStep ==
  ASSUME TypeOK, StreamInv, [Next]_vars
  PROVE  \A k \in Services :
           /\ produced[k] <= produced'[k]
           /\ Board!Known(k)' =>
                \/ Board!Known(k) /\ statuses'[k] = statuses[k]
                \/ statuses'[k].event.timestamp = produced[k] + 1
<1>0. /\ produced \in [Services -> Nat]
      /\ statuses \in [Services -> Board!Status \cup {NoStatus}]
  BY BoardNumbers DEF TypeOK, Board!TypeOK
<1>1. ASSUME NEW k \in Services, NEW r \in Reports, ProcessMessage(k, r),
             NEW j \in Services
      PROVE  /\ produced[j] <= produced'[j]
             /\ Board!Known(j)' =>
                  \/ Board!Known(j) /\ statuses'[j] = statuses[j]
                  \/ statuses'[j].event.timestamp = produced[j] + 1
  <2> DEFINE e == [service |-> k, timestamp |-> produced[k] + 1, report |-> r]
             new == [event |-> e, historicData |-> Board!Historic(e)]
  <2>1. /\ statuses' = [statuses EXCEPT ![k] = new]
        /\ produced' = [produced EXCEPT ![k] = @ + 1]
    BY <1>1 DEF ProcessMessage, Board!UpdateStatus, Produce
  <2>2. new.event.timestamp = produced[k] + 1
    OBVIOUS
  <2> HIDE DEF new
  <2> QED
    BY <1>0, <2>1, <2>2 DEF Board!Known
<1>2. ASSUME NEW k \in Services, MissResult(k), NEW j \in Services
      PROVE  /\ produced[j] <= produced'[j]
             /\ statuses' = statuses
  BY <1>0, <1>2 DEF MissResult, Produce, boardVars
<1>3. CASE Crash
  BY <1>0, <1>3 DEF Crash, Board!Known
<1>4. CASE UNCHANGED <<statuses, produced>>
  BY <1>0, <1>4 DEF Board!Known
<1> QED
  BY <1>1, <1>2, <1>3, <1>4
  DEF Next, vars, boardVars, Run, Persist, NewConnection, SetPushUUID,
      SetDeviceUUID, ProcessDisconnection, Deliver, Board!Known

(* What a handler does to what is on its way to a socket: nothing, a part of it
   goes, the board is sent, or the newest result is added. *)
LEMMA OutboxStep ==
  ASSUME TypeOK, StreamInv, [Next]_vars, NEW s \in Sockets, NEW i \in DOMAIN outbox'[s]
  PROVE  \/ \E j \in DOMAIN outbox[s] : outbox'[s][i] = outbox[s][j]
         \/ /\ NewConnection(s)
            /\ \E k \in Services : Board!Known(k) /\ outbox'[s][i] = statuses[k]
         \/ \E k \in Services :
              /\ EventOf(outbox'[s][i]).service = k
              /\ EventOf(outbox'[s][i]).timestamp = produced[k] + 1
              /\ statuses'[k].event.timestamp = produced[k] + 1
<1>0. /\ produced \in [Services -> Nat]
      /\ statuses \in [Services -> Board!Status \cup {NoStatus}]
      /\ outbox \in [Sockets -> Seq(Messages)]
  BY BoardNumbers DEF TypeOK, Board!TypeOK, Phones!TypeOK
<1>1. ASSUME NEW k \in Services, NEW r \in Reports, ProcessMessage(k, r)
      PROVE  \/ \E j \in DOMAIN outbox[s] : outbox'[s][i] = outbox[s][j]
             \/ /\ EventOf(outbox'[s][i]).service = k
                /\ EventOf(outbox'[s][i]).timestamp = produced[k] + 1
                /\ statuses'[k].event.timestamp = produced[k] + 1
  <2> DEFINE e == [service |-> k, timestamp |-> produced[k] + 1, report |-> r]
  <2>1. /\ outbox'[s] = outbox[s] \/ outbox'[s] = Append(outbox[s], e)
        /\ statuses'[k].event = e
    BY <1>0, <1>1
    DEF ProcessMessage, Phones!SpreadMessage, Phones!Emitted, Board!UpdateStatus
  <2>2. /\ e \in Messages /\ EventOf(e) = e
        /\ e.service = k /\ e.timestamp = produced[k] + 1
    BY <1>0, EventOfMessage DEF Board!Event, Messages
  <2> HIDE DEF e
  <2>3. \/ i \in DOMAIN outbox[s] /\ outbox'[s][i] = outbox[s][i]
        \/ outbox'[s][i] = e
    <3>1. CASE outbox'[s] = outbox[s]
      BY <3>1
    <3>2. CASE outbox'[s] = Append(outbox[s], e)
      <4>1. outbox[s] \in Seq(Messages) /\ i \in DOMAIN Append(outbox[s], e)
        BY <1>0, <3>2
      <4> QED
        BY <2>2, <3>2, <4>1, AppendAt
    <3> QED
      BY <2>1, <3>1, <3>2
  <2> QED
    BY <2>1, <2>2, <2>3
<1>2. ASSUME NEW c \in Sockets, NewConnection(c)
      PROVE  \/ \E j \in DOMAIN outbox[s] : outbox'[s][i] = outbox[s][j]
             \/ /\ NewConnection(s)
                /\ \E k \in Services : Board!Known(k) /\ outbox'[s][i] = statuses[k]
  <2>1. PICK q \in Orderings(Board!GetAll) : Phones!NewConnection(c, q)
    BY <1>2 DEF NewConnection
  <2>2. q \in Seq(Board!GetAll)
    BY <1>0, GetAllFinite, OrderingsAreSequences
  <2>3. outbox' = [outbox EXCEPT ![c] = q]
    BY <2>1 DEF Phones!NewConnection
  <2>4. CASE s = c
    <3>1. outbox'[s][i] \in Board!GetAll
      BY <1>0, <2>2, <2>3, <2>4
    <3> QED
      BY <1>2, <2>4, <3>1 DEF Board!GetAll
  <2>5. CASE s # c
    BY <1>0, <2>3, <2>5
  <2> QED
    BY <2>4, <2>5
<1>3. ASSUME NEW c \in Sockets, Deliver(c)
      PROVE  \E j \in DOMAIN outbox[s] : outbox'[s][i] = outbox[s][j]
  <2>1. outbox[c] # <<>> /\ outbox' = [outbox EXCEPT ![c] = Tail(@)]
    BY <1>3 DEF Deliver, Phones!Deliver
  <2>2. CASE s = c
    <3>1. outbox'[s] = Tail(outbox[s]) /\ outbox[s] \in Seq(Messages)
      BY <1>0, <2>1, <2>2
    <3>2. i + 1 \in DOMAIN outbox[s] /\ outbox'[s][i] = outbox[s][i + 1]
      BY <2>1, <2>2, <3>1, TailAt
    <3> QED
      BY <3>2
  <2>3. CASE s # c
    BY <1>0, <2>1, <2>3
  <2> QED
    BY <2>2, <2>3
<1>4. ASSUME NEW S, Phones!Drop(S)
      PROVE  \E j \in DOMAIN outbox[s] : outbox'[s][i] = outbox[s][j]
  <2>1. outbox'[s] = <<>> \/ outbox'[s] = outbox[s]
    BY <1>4 DEF Phones!Drop
  <2>2. DOMAIN <<>> = {}
    OBVIOUS
  <2> QED
    BY <2>1, <2>2
<1>5. CASE UNCHANGED outbox
  BY <1>5
<1> QED
  BY <1>1, <1>2, <1>3, <1>4, <1>5
  DEF Next, vars, phonesVars, Run, Phones!StartListening, Crash,
      Phones!StopListening, Persist, MissResult, SetPushUUID, Phones!SetPushUUID,
      SetDeviceUUID, Phones!SetDeviceUUID, ProcessDisconnection,
      Phones!ProcessDisconnection, Phones!history

-----------------------------------------------------------------------------
(* What the phone shows is behind Nagios and behind the board. *)
ShownBehind ==
  \A k \in Services :
    /\ shown[k] <= produced[k]
    /\ Board!Known(k) => shown[k] <= statuses[k].event.timestamp

(* What is on its way to any socket is no newer than the board. *)
OutboxBehind ==
  \A s \in Sockets : \A i \in DOMAIN outbox[s] :
    LET e == EventOf(outbox[s][i])
    IN  Board!Known(e.service) =>
          e.timestamp <= statuses[e.service].event.timestamp

(* What is on its way to the phone is no older than what it shows. *)
OutboxAhead ==
  \A s \in Sockets : App!Current(s) =>
    \A i \in DOMAIN outbox[s] :
      LET e == EventOf(outbox[s][i])
      IN  shown[e.service] <= e.timestamp

(* The inductive invariant of what the phone shows. *)
ShownInv == ShownBehind /\ OutboxBehind /\ OutboxAhead

(* What shown holds changes when the application starts, to nothing, or when a
   message is heard, to its number. *)
LEMMA ShownStep ==
  ASSUME DogzTypeOK, [DogzNext]_dogzVars
  PROVE  \/ shown' = shown
         \/ runs' # runs /\ shown' = [k \in Services |-> 0]
         \/ \E s \in Sockets :
              /\ Hear(s)
              /\ outbox[s] # <<>>
              /\ LET e == EventOf(Head(outbox[s]))
                 IN  shown' = [shown EXCEPT ![e.service] = e.timestamp]
<1>1. ASSUME NEW a, App!Run(a)
      PROVE  runs' # runs /\ shown' = [k \in Services |-> 0]
  BY <1>1 DEF App!Run, DogzTypeOK, App!TypeOK
<1>2. ASSUME NEW s \in Sockets, Hear(s)
      PROVE  /\ outbox[s] # <<>>
             /\ LET e == EventOf(Head(outbox[s]))
                IN  shown' = [shown EXCEPT ![e.service] = e.timestamp]
  BY <1>2 DEF Hear, App!NewMessageArrived, Deliver, Phones!Deliver
<1>3. ASSUME NEW s \in Sockets, Arrive(s) \/ Handle(s) PROVE shown' = shown
  BY <1>3 DEF Arrive, App!Open, Handle, App!Handled, App!appVars
<1>4. CASE PhoneStep
  BY <1>1, <1>4
  DEF PhoneStep, App!Restart, App!SetMiddlewareConfiguration, App!Registered,
      App!Connect, App!Close, App!Reconnect, App!appVars
<1>5. CASE UNCHANGED phoneVars
  BY <1>5 DEF phoneVars
<1> QED
  BY <1>2, <1>3, <1>4, <1>5 DEF DogzNext, ServerStep, dogzVars

(* What is heard is produced, no newer than the board, and what follows it on the
   socket is no older. *)
LEMMA HeardEvent ==
  ASSUME TypeOK, StreamInv, ShownInv, NEW s \in Sockets, Hear(s)
  PROVE  LET e == EventOf(Head(outbox[s]))
         IN  /\ e.service \in Services
             /\ e.timestamp \in Nat
             /\ e.timestamp <= produced[e.service]
             /\ Board!Known(e.service) =>
                  e.timestamp <= statuses[e.service].event.timestamp
             /\ shown[e.service] <= e.timestamp
             /\ \A i \in DOMAIN outbox[s] :
                  LET f == EventOf(outbox[s][i])
                  IN  i > 1 /\ f.service = e.service => e.timestamp < f.timestamp
<1>1. outbox[s] \in Seq(Messages) /\ outbox[s] # <<>> /\ App!Current(s)
  BY DEF TypeOK, Phones!TypeOK, Hear, Deliver, Phones!Deliver
<1>2. 1 \in DOMAIN outbox[s] /\ Head(outbox[s]) = outbox[s][1]
  BY <1>1
<1>3. Ordered(outbox[s]) /\ Produced(outbox[s], produced)
  BY OutboxOrdered
<1>4. ASSUME NEW i \in DOMAIN outbox[s], i > 1,
             EventOf(outbox[s][i]).service = EventOf(outbox[s][1]).service
      PROVE  EventOf(outbox[s][1]).timestamp < EventOf(outbox[s][i]).timestamp
  BY <1>2, <1>3, <1>4 DEF Ordered
<1> QED
  BY <1>1, <1>2, <1>3, <1>4, OutboxEvents
  DEF Produced, ShownInv, OutboxBehind, OutboxAhead

(* A message that is heard was on the board; the board only moves on. *)
LEMMA ShownBehindStep ==
  ASSUME DogzTypeInv, StreamInv, ShownInv, [DogzNext]_dogzVars
  PROVE  ShownBehind'
<1>0. DogzTypeOK /\ TypeOK /\ App!TypeOK /\ [Next]_vars
  BY MiddlewareStep DEF DogzTypeInv, DogzTypeOK
<1>1. TypeOK'
  BY <1>0, TypesStep
<1>2. /\ shown \in [Services -> Nat]
      /\ produced \in [Services -> Nat] /\ produced' \in [Services -> Nat]
  BY <1>0, <1>1, BoardNumbers, MaxEventsAssumption DEF App!TypeOK, TypeOK
<1>3. ASSUME NEW k \in Services
      PROVE  /\ produced[k] <= produced'[k]
             /\ Board!Known(k)' =>
                  \/ Board!Known(k) /\ statuses'[k] = statuses[k]
                  \/ statuses'[k].event.timestamp = produced[k] + 1
             /\ Board!Known(k) => statuses[k].event.timestamp \in Nat
             /\ shown[k] <= produced[k]
             /\ Board!Known(k) => shown[k] <= statuses[k].event.timestamp
  BY <1>0, NumbersStep, BoardNumbers DEF ShownInv, ShownBehind
<1>4. ASSUME NEW k \in Services, shown'[k] = shown[k] \/ shown'[k] = 0
      PROVE  /\ shown'[k] <= produced'[k]
             /\ Board!Known(k)' => shown'[k] <= statuses'[k].event.timestamp
  BY <1>2, <1>3, <1>4
<1>5. ASSUME NEW s \in Sockets, Hear(s), NEW k \in Services,
             outbox[s] # <<>>,
             shown' = [shown EXCEPT ![EventOf(Head(outbox[s])).service]
                         = EventOf(Head(outbox[s])).timestamp]
      PROVE  /\ shown'[k] <= produced'[k]
             /\ Board!Known(k)' => shown'[k] <= statuses'[k].event.timestamp
  <2> DEFINE e == EventOf(Head(outbox[s]))
  <2>1. /\ e.service \in Services
        /\ e.timestamp <= produced[e.service]
        /\ Board!Known(e.service) =>
             e.timestamp <= statuses[e.service].event.timestamp
    BY <1>0, <1>5, HeardEvent
  <2>2. shown' = [shown EXCEPT ![e.service] = e.timestamp]
    BY <1>5
  <2>3. UNCHANGED <<produced, statuses>>
    BY <1>5 DEF Hear, Deliver, boardVars
  <2> HIDE DEF e
  <2> QED
    BY <1>2, <1>3, <2>1, <2>2, <2>3 DEF Board!Known
<1>6. ASSUME NEW k \in Services
      PROVE  /\ shown'[k] <= produced'[k]
             /\ Board!Known(k)' => shown'[k] <= statuses'[k].event.timestamp
  <2>1. CASE shown' = shown
    BY <1>4, <2>1
  <2>2. CASE shown' = [j \in Services |-> 0]
    BY <1>4, <2>2
  <2> QED
    BY <1>0, <1>5, <2>1, <2>2, ShownStep
<1> QED
  BY <1>6 DEF ShownBehind

(* A message is emitted when the board has its result. *)
LEMMA OutboxBehindStep ==
  ASSUME TypeOK, StreamInv, OutboxBehind, [Next]_vars
  PROVE  OutboxBehind'
<1>1. ASSUME NEW s \in Sockets, NEW i \in DOMAIN outbox'[s],
             statuses'[EventOf(outbox'[s][i]).service] # NoStatus
      PROVE  EventOf(outbox'[s][i]).timestamp
               <= statuses'[EventOf(outbox'[s][i]).service].event.timestamp
  <2>1. PICK f : f = EventOf(outbox'[s][i])
    OBVIOUS
  <2>2. CASE \E j \in DOMAIN outbox[s] : outbox'[s][i] = outbox[s][j]
    <3>1. PICK j \in DOMAIN outbox[s] : outbox'[s][i] = outbox[s][j]
      BY <2>2
    <3>2. /\ f.service \in Services /\ f.timestamp \in Nat
          /\ f.timestamp <= produced[f.service]
          /\ Board!Known(f.service) =>
               f.timestamp <= statuses[f.service].event.timestamp
      BY <2>1, <3>1, OutboxEvents, OutboxOrdered DEF OutboxBehind, Produced
    <3>3. \/ Board!Known(f.service) /\ statuses'[f.service] = statuses[f.service]
          \/ statuses'[f.service].event.timestamp = produced[f.service] + 1
      BY <1>1, <2>1, <3>2, NumbersStep DEF Board!Known
    <3>4. produced[f.service] \in Nat
      BY <3>2, BoardNumbers
    <3> QED
      BY <2>1, <3>2, <3>3, <3>4
  <2>3. CASE /\ NewConnection(s)
             /\ \E k \in Services : Board!Known(k) /\ outbox'[s][i] = statuses[k]
    <3>1. PICK k \in Services : Board!Known(k) /\ outbox'[s][i] = statuses[k]
      BY <2>3
    <3>2. statuses[k] \in Board!Status
      BY <3>1 DEF TypeOK, Board!TypeOK, Board!Known
    <3>3. f = statuses[k].event /\ f.service = k
      BY <2>1, <3>1, <3>2, EventOfMessage DEF StreamInv, BoardBehind
    <3>4. statuses' = statuses /\ statuses[k].event.timestamp \in Nat
      BY <2>3, <3>1, BoardNumbers DEF NewConnection, boardVars
    <3> QED
      BY <2>1, <3>3, <3>4
  <2>4. CASE \E k \in Services :
               /\ EventOf(outbox'[s][i]).service = k
               /\ EventOf(outbox'[s][i]).timestamp = produced[k] + 1
               /\ statuses'[k].event.timestamp = produced[k] + 1
    BY <2>4, BoardNumbers
  <2> QED
    BY <2>2, <2>3, <2>4, OutboxStep
<1> QED
  BY <1>1 DEF OutboxBehind, EventOf, Board!Known

(* The phone gets on a socket only when the middleware takes it. *)
LEMMA CurrentStep ==
  ASSUME DogzTypeOK, [DogzNext]_dogzVars, NEW s \in Sockets, App!Current(s)'
  PROVE  \/ Arrive(s)
         \/ App!Current(s) /\ socket' = socket
<1> USE DEF App!Current
<1>1. ASSUME NEW a, App!Run(a) PROVE FALSE
  BY <1>1 DEF App!Run
<1>2. ASSUME NEW c \in Sockets, Arrive(c) PROVE Arrive(s)
  BY <1>2 DEF Arrive, App!Open
<1>3. ASSUME NEW c \in Sockets, Handle(c) \/ Hear(c)
      PROVE  App!Current(s) /\ socket' = socket
  BY <1>3
  DEF Handle, App!Handled, Hear, App!NewMessageArrived, App!linkVars
<1>4. CASE PhoneStep
  BY <1>1, <1>4
  DEF PhoneStep, App!Restart, App!SetMiddlewareConfiguration, App!Registered,
      App!Connect, App!Close, App!Reconnect
<1>5. CASE UNCHANGED phoneVars
  BY <1>5 DEF phoneVars
<1> QED
  BY <1>2, <1>3, <1>4, <1>5 DEF DogzNext, ServerStep, dogzVars

(* A snapshot is the board, and a result is newer than all that were shown. *)
LEMMA OutboxAheadStep ==
  ASSUME DogzTypeInv, StreamInv, ShownInv, [DogzNext]_dogzVars
  PROVE  OutboxAhead'
<1>0. DogzTypeOK /\ TypeOK /\ App!TypeOK /\ [Next]_vars
  BY MiddlewareStep DEF DogzTypeInv, DogzTypeOK
<1>1. shown \in [Services -> Nat] /\ produced \in [Services -> Nat]
  BY <1>0, BoardNumbers DEF App!TypeOK
<1>2. ASSUME NEW s \in Sockets, App!Current(s)', NEW i \in DOMAIN outbox'[s],
             shown' = shown
      PROVE  shown[EventOf(outbox'[s][i]).service] <= EventOf(outbox'[s][i]).timestamp
  <2>1. CASE \E j \in DOMAIN outbox[s] : outbox'[s][i] = outbox[s][j]
    <3>1. CASE Arrive(s)
      <4>1. socketState[s] = "new"
        BY <3>1 DEF Arrive, NewConnection, Phones!NewConnection
      <4>2. DOMAIN outbox[s] = {}
        BY <4>1 DEF StreamInv, Fresh
      <4> QED
        BY <2>1, <4>2
    <3>2. CASE App!Current(s)
      BY <2>1, <3>2 DEF ShownInv, OutboxAhead
    <3> QED
      BY <1>0, <1>2, <3>1, <3>2, CurrentStep
  <2>2. CASE \E k \in Services : Board!Known(k) /\ outbox'[s][i] = statuses[k]
    <3>1. PICK k \in Services : Board!Known(k) /\ outbox'[s][i] = statuses[k]
      BY <2>2
    <3>2. statuses[k] \in Board!Status
      BY <1>0, <3>1 DEF TypeOK, Board!TypeOK, Board!Known
    <3>3. /\ EventOf(outbox'[s][i]) = statuses[k].event
          /\ statuses[k].event.service = k
      BY <3>1, <3>2, EventOfMessage DEF StreamInv, BoardBehind
    <3> QED
      BY <3>1, <3>3 DEF ShownInv, ShownBehind
  <2>3. CASE \E k \in Services :
               /\ EventOf(outbox'[s][i]).service = k
               /\ EventOf(outbox'[s][i]).timestamp = produced[k] + 1
    <3>1. \A k \in Services : shown[k] <= produced[k] + 1
      BY <1>1 DEF ShownInv, ShownBehind
    <3> QED
      BY <2>3, <3>1
  <2> QED
    BY <1>0, <2>1, <2>2, <2>3, OutboxStep
<1>3. ASSUME NEW s \in Sockets, App!Current(s)', NEW i \in DOMAIN outbox'[s],
             NEW c \in Sockets, Hear(c), outbox[c] # <<>>,
             shown' = [shown EXCEPT ![EventOf(Head(outbox[c])).service]
                         = EventOf(Head(outbox[c])).timestamp]
      PROVE  shown'[EventOf(outbox'[s][i]).service] <= EventOf(outbox'[s][i]).timestamp
  <2>1. c = s /\ App!Current(s)
    BY <1>3 DEF Hear, App!Current, App!NewMessageArrived, App!linkVars
  <2>2. outbox[s] \in Seq(Messages) /\ outbox'[s] = Tail(outbox[s])
    BY <1>0, <1>3, <2>1 DEF TypeOK, Phones!TypeOK, Hear, Deliver, Phones!Deliver
  <2>3. i \in Nat /\ i + 1 \in DOMAIN outbox[s] /\ outbox'[s][i] = outbox[s][i + 1]
    BY <1>3, <2>1, <2>2, TailAt
  <2>4. PICK f : f = EventOf(outbox[s][i + 1])
    OBVIOUS
  <2>5. PICK e : e = EventOf(Head(outbox[s]))
    OBVIOUS
  <2>6. /\ f.service \in Services /\ f.timestamp \in Nat
        /\ shown[f.service] <= f.timestamp
    BY <1>0, <2>1, <2>3, <2>4, OutboxEvents DEF ShownInv, OutboxAhead
  <2>7. /\ e.timestamp \in Nat
        /\ f.service = e.service => e.timestamp < f.timestamp
    <3>1. i + 1 > 1
      <4>1. i \in DOMAIN Tail(outbox[s]) /\ Tail(outbox[s]) \in Seq(Messages)
        BY <1>3, <2>1, <2>2, HeadTailProperties
      <4>2. i \in 1..Len(Tail(outbox[s])) /\ Len(Tail(outbox[s])) \in Nat
        BY <4>1, LenProperties
      <4> QED
        BY <4>2
    <3> QED
      BY <1>0, <1>3, <2>1, <2>3, <2>4, <2>5, <3>1, HeardEvent
  <2> QED
    BY <1>1, <1>3, <2>1, <2>3, <2>4, <2>5, <2>6, <2>7
<1>4. ASSUME NEW s \in Sockets, App!Current(s)', runs' # runs PROVE FALSE
  <2>1. ASSUME NEW a, App!Run(a) PROVE FALSE
    BY <1>4, <2>1 DEF App!Run, App!Current
  <2> QED
    BY <1>4, <2>1
    DEF DogzNext, dogzVars, phoneVars, PhoneStep, ServerStep, Arrive, Handle, Hear,
        App!Restart, App!SetMiddlewareConfiguration, App!Registered, App!Connect,
        App!Close, App!Reconnect, App!Open, App!Handled, App!NewMessageArrived,
        App!appVars
<1>5. ASSUME NEW s \in Sockets, App!Current(s)', NEW i \in DOMAIN outbox'[s]
      PROVE  shown'[EventOf(outbox'[s][i]).service] <= EventOf(outbox'[s][i]).timestamp
  BY <1>0, <1>2, <1>3, <1>4, <1>5, ShownStep
<1> QED
  BY <1>5 DEF OutboxAhead, EventOf

(* Both ends of what the phone shows hold in every reachable state. *)
THEOREM ShownInvAlways == DogzSpec => []ShownInv
<1>1. DogzInit => ShownInv
  <2> SUFFICES ASSUME DogzInit PROVE ShownInv
    OBVIOUS
  <2>1. /\ shown = [k \in Services |-> 0]
        /\ produced = [k \in Services |-> 0]
        /\ statuses = [k \in Services |-> NoStatus]
        /\ outbox = [s \in Sockets |-> <<>>]
    BY DEF DogzInit, App!Init, Init, Board!Init, Board!Empty, Phones!Init
  <2>2. \A s \in Sockets : DOMAIN outbox[s] = {}
    BY <2>1
  <2> QED
    BY <2>1, <2>2
    DEF ShownInv, ShownBehind, OutboxBehind, OutboxAhead, Board!Known
<1>2. DogzTypeInv /\ StreamInv /\ ShownInv /\ [DogzNext]_dogzVars => ShownInv'
  <2> SUFFICES ASSUME DogzTypeInv, StreamInv, ShownInv, [DogzNext]_dogzVars
               PROVE  ShownInv'
    OBVIOUS
  <2>1. TypeOK /\ OutboxBehind /\ [Next]_vars
    BY MiddlewareStep DEF DogzTypeInv, DogzTypeOK, ShownInv
  <2> QED
    BY <2>1, ShownBehindStep, OutboxBehindStep, OutboxAheadStep DEF ShownInv
<1> QED
  BY <1>1, <1>2, DogzTypeInvAlways, MiddlewareKeepsItsSpec, StreamInvAlways, PTL
  DEF DogzSpec

(* While the application runs, what it shows of a service never goes back in time:
   not through reconnections, and not when the middleware forgets its board. *)
THEOREM PhoneNeverGoesBackAlways == DogzSpec => PhoneNeverGoesBack
<1>1. DogzTypeInv /\ StreamInv /\ ShownInv /\ [DogzNext]_dogzVars
        => [runs' = runs => \A k \in Services : shown'[k] >= shown[k]]_dogzVars
  <2> SUFFICES ASSUME DogzTypeInv, StreamInv, ShownInv, [DogzNext]_dogzVars,
                      runs' = runs, NEW k \in Services
               PROVE  shown'[k] >= shown[k]
    OBVIOUS
  <2>0. DogzTypeOK /\ TypeOK /\ shown \in [Services -> Nat]
    BY DEF DogzTypeInv, DogzTypeOK, App!TypeOK
  <2>1. CASE shown' = shown
    BY <2>0, <2>1
  <2>2. ASSUME NEW s \in Sockets, Hear(s), outbox[s] # <<>>,
               shown' = [shown EXCEPT ![EventOf(Head(outbox[s])).service]
                           = EventOf(Head(outbox[s])).timestamp]
        PROVE  shown'[k] >= shown[k]
    <3>1. PICK e : e = EventOf(Head(outbox[s]))
      OBVIOUS
    <3>2. e.timestamp \in Nat /\ shown[e.service] <= e.timestamp
      BY <2>0, <2>2, <3>1, HeardEvent
    <3> QED
      BY <2>0, <2>2, <3>1, <3>2
  <2> QED
    BY <2>0, <2>1, <2>2, ShownStep
<1> QED
  BY <1>1, DogzTypeInvAlways, MiddlewareKeepsItsSpec, StreamInvAlways,
     ShownInvAlways, PTL DEF DogzSpec, PhoneNeverGoesBack

-----------------------------------------------------------------------------
(* A push id on its way to the middleware. *)
PushIdMessage(p) == [event |-> "pushid", id |-> p]

(* The uuid is the j-th message under way on s. *)
UuidAt(s, j) == j \in DOMAIN uplink[s] /\ uplink[s][j].event = "deviceuuid"

(* The middleware is still to be told the uuid on s. *)
Announcing(s) ==
  \/ s = socket /\ engine = "open"
  \/ \E j \in DOMAIN uplink[s] : UuidAt(s, j)

(* A socket that is still to open is blank on both sides. *)
SocketsInv ==
  /\ engine \in {"open", "connected"} => socket \in Sockets
  /\ \A s \in Sockets : s > socket =>
       /\ uplink[s] = <<>> /\ early[s] = Null
       /\ deviceUUID[s] = Null /\ pushRegistrationId[s] = Null

(* Ahead of the uuid goes the id early has, and the uuid goes once. *)
InOrder(s) ==
  /\ s = socket /\ engine = "open" =>
       /\ early[s] # Null => registrationId # Null
       /\ \A i \in DOMAIN uplink[s] : uplink[s][i] = PushIdMessage(early[s])
  /\ \A j \in DOMAIN uplink[s] : UuidAt(s, j) =>
       /\ \A i \in DOMAIN uplink[s] : UuidAt(s, i) => i = j
       /\ \A i \in 1..(j - 1) : uplink[s][i] = PushIdMessage(early[s])

(* Until the middleware is told the uuid it has the early id, or a push id is
   what it handles next. *)
Announced(s) ==
  /\ deviceUUID[s] = Null
  /\ \/ pushRegistrationId[s] = early[s]
     \/ /\ pushRegistrationId[s] = Null
        /\ uplink[s] # <<>> /\ uplink[s][1].event = "pushid"

OrderInv == \A s \in Sockets : InOrder(s)
AnnouncedInv == \A s \in Sockets : Announcing(s) => Announced(s)
LinkInv == SocketsInv /\ OrderInv /\ AnnouncedInv

(* What the two sides know of the sockets. *)
linkState ==
  <<engine, socket, registrationId, uplink, early, deviceUUID, pushRegistrationId>>

(* What a step of the composition is to the announcements. *)
LEMMA LinkStep ==
  ASSUME DogzTypeOK, [DogzNext]_dogzVars
  PROVE  \/ UNCHANGED linkState
         \/ /\ engine' \notin {"open", "connected"}
            /\ UNCHANGED <<socket, uplink, early, deviceUUID, pushRegistrationId>>
         \/ (\E p \in PushIds : App!Registered(p)) /\ UNCHANGED vars
         \/ App!Connect /\ UNCHANGED vars
         \/ \E s \in Sockets : Arrive(s) \/ Handle(s)
<1> USE DEF linkState
<1>1. CASE PhoneStep
  <2>1. UNCHANGED <<deviceUUID, pushRegistrationId>>
    BY <1>1 DEF PhoneStep, vars, phonesVars
  <2>2. ASSUME NEW a, App!Run(a)
        PROVE  engine' \notin {"open", "connected"} /\ UNCHANGED <<socket, uplink, early>>
    BY <2>2 DEF App!Run
  <2>3. ASSUME App!Close \/ App!Reconnect
        PROVE  engine' \notin {"open", "connected"} /\ UNCHANGED <<socket, uplink, early>>
    BY <2>3 DEF App!Close, App!Reconnect
  <2> QED
    BY <1>1, <2>1, <2>2, <2>3
    DEF PhoneStep, App!Restart, App!SetMiddlewareConfiguration
<1>2. CASE ServerStep
  <2>1. UNCHANGED <<deviceUUID, pushRegistrationId>>
    BY <1>2
    DEF ServerStep, Run, Phones!StartListening, Crash, Phones!StopListening, Persist,
        phonesVars, MissResult, ProcessMessage, Phones!SpreadMessage,
        ProcessDisconnection, Phones!ProcessDisconnection, Phones!ids
  <2> QED
    BY <1>2, <2>1 DEF ServerStep, phoneVars
<1>3. ASSUME NEW s \in Sockets, Hear(s) PROVE UNCHANGED linkState
  BY <1>3
  DEF Hear, App!NewMessageArrived, App!linkVars, Deliver, Phones!Deliver, Phones!ids
<1>4. CASE UNCHANGED dogzVars
  BY <1>4 DEF dogzVars, vars, phonesVars, phoneVars
<1> QED
  BY <1>1, <1>2, <1>3, <1>4 DEF DogzNext

(* What the phone has emitted and what the middleware took of it. *)
LEMMA RegisteredStep ==
  ASSUME DogzTypeOK, NEW p \in PushIds, App!Registered(p), UNCHANGED vars,
         NEW s \in Sockets
  PROVE  /\ p # Null /\ registrationId = Null /\ registrationId' = p
         /\ UNCHANGED <<engine, socket, deviceUUID, pushRegistrationId>>
         /\ IF App!Current(s)
            THEN /\ uplink'[s] = Append(uplink[s], PushIdMessage(p))
                 /\ early'[s] = IF engine = "open" THEN p ELSE early[s]
            ELSE uplink'[s] = uplink[s] /\ early'[s] = early[s]
BY AppSockets, DeviceAssumption
DEF DogzTypeOK, App!TypeOK, App!Registered, App!Emit, PushIdMessage, vars, phonesVars

(* connect on the phone: the uuid is emitted, behind what is under way. *)
LEMMA ConnectStep ==
  ASSUME DogzTypeOK, App!Connect, UNCHANGED vars, NEW s \in Sockets
  PROVE  /\ engine = "open" /\ engine' = "connected"
         /\ UNCHANGED <<socket, registrationId, deviceUUID, pushRegistrationId, early>>
         /\ uplink'[s] = IF s = socket
                         THEN Append(uplink[s],
                                     [event |-> "deviceuuid", id |-> DeviceUUID])
                         ELSE uplink[s]
BY AppSockets
DEF DogzTypeOK, App!TypeOK, App!Connect, App!Emit, App!Current, App!appVars, vars,
    phonesVars

(* A transport opens: what the engine held is under way on a new socket. *)
LEMMA ArriveStep ==
  ASSUME DogzTypeInv, NEW s \in Sockets, Arrive(s)
  PROVE  /\ engine = "opening" /\ engine' = "open"
         /\ s > socket /\ socket' = s /\ s = socket + 1
         /\ UNCHANGED <<registrationId, deviceUUID, pushRegistrationId>>
         /\ \A c \in Sockets \ {s} : uplink'[c] = uplink[c] /\ early'[c] = early[c]
         /\ \/ uplink'[s] = <<>> /\ early'[s] = Null
            \/ /\ registrationId # Null /\ early'[s] = registrationId
               /\ uplink'[s] = <<PushIdMessage(registrationId)>>
<1>1. /\ App!Open(s)
      /\ uplink \in [Sockets -> Seq(App!Emits)]
      /\ early \in [Sockets -> PushIds \cup {Null}]
      /\ socket \in Nat
  BY AppSockets, SocketsAssumption
  DEF Arrive, DogzTypeInv, DogzTypeOK, App!TypeOK
<1>2. UNCHANGED <<deviceUUID, pushRegistrationId>>
  BY DEF Arrive, NewConnection, Phones!NewConnection, Phones!ids
<1>3. CASE buffer = <<>>
  BY <1>1, <1>2, <1>3 DEF App!Open, App!Flushed, App!appVars
<1>4. CASE buffer # <<>>
  <2>1. registrationId # Null /\ buffer = <<PushIdMessage(registrationId)>>
    BY <1>4 DEF DogzTypeInv, BufferInv, PushIdMessage
  <2>2. Head(buffer).id = registrationId
    BY <2>1 DEF PushIdMessage
  <2> QED
    BY <1>1, <1>2, <1>4, <2>1, <2>2 DEF App!Open, App!Flushed, App!appVars
<1> QED
  BY <1>3, <1>4

(* The middleware handles the first message under way. *)
LEMMA HandleStep ==
  ASSUME DogzTypeOK, NEW s \in Sockets, Handle(s)
  PROVE  /\ uplink[s] # <<>> /\ uplink[s] \in Seq(App!Emits)
         /\ uplink' = [uplink EXCEPT ![s] = Tail(@)]
         /\ UNCHANGED <<engine, socket, registrationId, early>>
         /\ \/ /\ uplink[s][1].event = "pushid"
               /\ SetPushUUID(s, uplink[s][1].id)
               /\ pushRegistrationId' = [pushRegistrationId EXCEPT ![s] = uplink[s][1].id]
               /\ UNCHANGED deviceUUID
            \/ /\ UuidAt(s, 1)
               /\ SetDeviceUUID(s, DeviceUUID)
               /\ deviceUUID' = [deviceUUID EXCEPT ![s] = DeviceUUID]
               /\ UNCHANGED pushRegistrationId
<1>1. /\ uplink[s] # <<>> /\ uplink[s] \in Seq(App!Emits)
      /\ uplink' = [uplink EXCEPT ![s] = Tail(@)]
      /\ UNCHANGED <<engine, socket, registrationId, early>>
  BY AppSockets
  DEF Handle, App!Handled, App!appVars, DogzTypeOK, App!TypeOK
<1>2. 1 \in DOMAIN uplink[s] /\ Head(uplink[s]) = uplink[s][1]
  BY <1>1
<1>3. uplink[s][1] \in App!Emits
  BY <1>1, <1>2
<1>4. \/ uplink[s][1].event = "pushid" /\ SetPushUUID(s, uplink[s][1].id)
      \/ uplink[s][1].event = "deviceuuid" /\ SetDeviceUUID(s, DeviceUUID)
  BY <1>2, <1>3, EmitsAre DEF Handle
<1> QED
  BY <1>1, <1>2, <1>4
  DEF SetPushUUID, Phones!SetPushUUID, SetDeviceUUID, Phones!SetDeviceUUID, UuidAt

(* The types of what the two sides know of a socket. *)
LEMMA LinkTypes ==
  ASSUME DogzTypeOK
  PROVE  /\ uplink \in [Sockets -> Seq(App!Emits)]
         /\ early \in [Sockets -> PushIds \cup {Null}]
         /\ deviceUUID \in [Sockets -> DeviceIds \cup {Null}]
         /\ pushRegistrationId \in [Sockets -> PushIds \cup {Null}]
         /\ socket \in 0..MaxSockets /\ socket \in Nat /\ Sockets = 1..MaxSockets
BY AppSockets, SocketsAssumption
DEF DogzTypeOK, App!TypeOK, TypeOK, Phones!TypeOK

(* Sockets open in the order of their numbers. *)
LEMMA SocketsInvStep ==
  ASSUME DogzTypeInv, SocketsInv, [DogzNext]_dogzVars
  PROVE  SocketsInv'
<1>0. DogzTypeOK
  BY DEF DogzTypeInv
<1>1. CASE UNCHANGED linkState
  BY <1>1 DEF linkState, SocketsInv
<1>2. CASE /\ engine' \notin {"open", "connected"}
           /\ UNCHANGED <<socket, uplink, early, deviceUUID, pushRegistrationId>>
  BY <1>2 DEF SocketsInv
<1>3. ASSUME NEW p \in PushIds, App!Registered(p), UNCHANGED vars
      PROVE  SocketsInv'
  <2>1. ASSUME NEW s \in Sockets, s > socket
        PROVE  uplink'[s] = uplink[s] /\ early'[s] = early[s]
    <3>1. ~App!Current(s)
      BY <1>0, <2>1, LinkTypes DEF App!Current
    <3> QED
      BY <1>0, <1>3, <3>1, RegisteredStep
  <2> QED
    BY <1>0, <1>3, <2>1 DEF SocketsInv, App!Registered, vars, phonesVars
<1>4. ASSUME App!Connect, UNCHANGED vars PROVE SocketsInv'
  <2>1. engine = "open" /\ UNCHANGED <<socket, early, deviceUUID, pushRegistrationId>>
    BY <1>4 DEF App!Connect, vars, phonesVars
  <2>2. ASSUME NEW s \in Sockets, s > socket PROVE uplink'[s] = uplink[s]
    <3>1. s # socket
      BY <1>0, <2>2, LinkTypes
    <3> QED
      BY <1>0, <1>4, <3>1, ConnectStep
  <2> QED
    BY <2>1, <2>2 DEF SocketsInv
<1>5. ASSUME NEW s \in Sockets, Arrive(s) PROVE SocketsInv'
  <2>1. /\ socket' = s /\ s > socket
        /\ UNCHANGED <<deviceUUID, pushRegistrationId>>
        /\ \A c \in Sockets \ {s} : uplink'[c] = uplink[c] /\ early'[c] = early[c]
    BY <1>5, ArriveStep
  <2>2. ASSUME NEW c \in Sockets, c > s PROVE c > socket /\ c # s
    BY <1>0, <2>1, <2>2, LinkTypes
  <2> QED
    BY <2>1, <2>2 DEF SocketsInv
<1>6. ASSUME NEW s \in Sockets, Handle(s) PROVE SocketsInv'
  BY <1>0, <1>6, HandleStep, LinkTypes DEF SocketsInv
<1> QED
  BY <1>0, <1>1, <1>2, <1>3, <1>4, <1>5, <1>6, LinkStep

(* What is emitted on a socket that is open, and on a socket left alone. *)
LEMMA InOrderFrame ==
  ASSUME NEW s \in Sockets, InOrder(s), uplink'[s] = uplink[s], early'[s] = early[s],
         (s = socket /\ engine = "open")'
           => s = socket /\ engine = "open" /\ registrationId' = registrationId
  PROVE  InOrder(s)'
BY DEF InOrder, UuidAt

(* Nothing is emitted ahead of what is under way. *)
LEMMA OrderInvStep ==
  ASSUME DogzTypeInv, SocketsInv, OrderInv, [DogzNext]_dogzVars
  PROVE  OrderInv'
<1>0. DogzTypeOK
  BY DEF DogzTypeInv
<1>1. CASE UNCHANGED linkState
  BY <1>1, InOrderFrame DEF linkState, OrderInv
<1>2. CASE /\ engine' \notin {"open", "connected"}
           /\ UNCHANGED <<socket, uplink, early, deviceUUID, pushRegistrationId>>
  BY <1>2, InOrderFrame DEF OrderInv
<1>3. ASSUME NEW p \in PushIds, App!Registered(p), UNCHANGED vars, NEW s \in Sockets
      PROVE  InOrder(s)'
  <2> DEFINE q == uplink[s]
             t == Append(q, PushIdMessage(p))
  <2>1. InOrder(s) /\ q \in Seq(App!Emits) /\ PushIdMessage(p) \in App!Emits
    BY <1>0, LinkTypes DEF OrderInv, App!Emits, PushIdMessage
  <2>2. CASE ~App!Current(s)
    <3>1. uplink'[s] = uplink[s] /\ early'[s] = early[s]
      BY <1>0, <1>3, <2>2, RegisteredStep
    <3>2. ~(s = socket /\ engine = "open")'
      BY <1>0, <1>3, <2>2, RegisteredStep DEF App!Current
    <3> QED
      BY <2>1, <3>1, <3>2, InOrderFrame
  <2>3. CASE App!Current(s) /\ engine = "open"
    <3>1. early[s] = Null
      BY <1>0, <1>3, <2>1, <2>3, RegisteredStep DEF InOrder, App!Current
    <3>2. DOMAIN q = {}
      <4>1. ASSUME NEW i \in DOMAIN q PROVE FALSE
        <5>1. q[i] = PushIdMessage(Null)
          BY <2>1, <2>3, <3>1, <4>1 DEF InOrder, App!Current
        <5>2. q[i] \in App!Emits
          BY <2>1, <4>1
        <5> QED
          BY <5>1, <5>2, EmitsAre, DeviceAssumption DEF PushIdMessage
      <4> QED
        BY <4>1
    <3>3. q = <<>>
      <4>1. Len(q) \in Nat /\ DOMAIN q = 1..Len(q)
        BY <2>1, LenProperties
      <4>2. Len(q) = 0
        BY <3>2, <4>1
      <4> QED
        BY <2>1, <4>2, EmptySeq
    <3>4. uplink'[s] = <<PushIdMessage(p)>> /\ early'[s] = p /\ registrationId' # Null
      BY <1>0, <1>3, <2>3, <3>3, RegisteredStep
    <3> QED
      BY <3>4 DEF InOrder, UuidAt, PushIdMessage
  <2>4. CASE App!Current(s) /\ engine = "connected"
    <3>1. uplink'[s] = t /\ early'[s] = early[s] /\ engine' = engine
      BY <1>0, <1>3, <2>4, RegisteredStep
    <3>2. /\ DOMAIN q = 1..Len(q) /\ DOMAIN t = 1..(Len(q) + 1) /\ Len(q) \in Nat
          /\ \A i \in DOMAIN q : t[i] = q[i]
          /\ t[Len(q) + 1] = PushIdMessage(p)
      BY <2>1, AppendProperties
    <3>3. ASSUME NEW j \in DOMAIN t, t[j].event = "deviceuuid"
          PROVE  j \in DOMAIN q /\ UuidAt(s, j)
      <4>1. j # Len(q) + 1
        BY <3>2, <3>3 DEF PushIdMessage
      <4> QED
        BY <3>2, <3>3, <4>1 DEF UuidAt
    <3> HIDE DEF t
    <3>4. ASSUME NEW j \in DOMAIN t, t[j].event = "deviceuuid"
          PROVE  /\ \A i \in DOMAIN t : t[i].event = "deviceuuid" => i = j
                 /\ \A i \in 1..(j - 1) : t[i] = PushIdMessage(early[s])
      <4>1. UuidAt(s, j) /\ j \in 1..Len(q)
        BY <3>2, <3>3, <3>4
      <4>2. \A i \in 1..(j - 1) : i \in DOMAIN q /\ t[i] = q[i]
        BY <3>2, <4>1
      <4> QED
        BY <2>1, <3>3, <3>4, <4>1, <4>2 DEF InOrder
    <3> QED
      BY <2>4, <3>1, <3>4 DEF InOrder, UuidAt
  <2> QED
    BY <2>2, <2>3, <2>4 DEF App!Current
<1>4. ASSUME App!Connect, UNCHANGED vars, NEW s \in Sockets PROVE InOrder(s)'
  <2> DEFINE q == uplink[s]
             u == [event |-> "deviceuuid", id |-> DeviceUUID]
             t == Append(q, u)
  <2>1. InOrder(s) /\ q \in Seq(App!Emits) /\ u \in App!Emits
    BY <1>0, LinkTypes DEF OrderInv, App!Emits
  <2>2. CASE s # socket
    BY <1>0, <1>4, <2>1, <2>2, ConnectStep, InOrderFrame
  <2>3. CASE s = socket
    <3>1. uplink'[s] = t /\ early' = early /\ engine' = "connected"
      BY <1>0, <1>4, <2>3, ConnectStep
    <3>2. \A i \in DOMAIN q : q[i] = PushIdMessage(early[s])
      BY <1>0, <1>4, <2>1, <2>3, ConnectStep DEF InOrder
    <3>3. /\ DOMAIN q = 1..Len(q) /\ DOMAIN t = 1..(Len(q) + 1) /\ Len(q) \in Nat
          /\ \A i \in DOMAIN q : t[i] = q[i]
      BY <2>1, AppendProperties
    <3>4. ASSUME NEW j \in DOMAIN t, t[j].event = "deviceuuid" PROVE j = Len(q) + 1
      BY <3>2, <3>3, <3>4 DEF PushIdMessage
    <3> HIDE DEF t
    <3>5. \A i \in 1..(Len(q) + 1 - 1) : t[i] = PushIdMessage(early[s])
      BY <3>2, <3>3
    <3> QED
      BY <3>1, <3>4, <3>5 DEF InOrder, UuidAt
  <2> QED
    BY <2>2, <2>3
<1>5. ASSUME NEW c \in Sockets, Arrive(c), NEW s \in Sockets PROVE InOrder(s)'
  <2>1. InOrder(s)
    BY DEF OrderInv
  <2>2. CASE s # c
    BY <1>0, <1>5, <2>1, <2>2, ArriveStep, LinkTypes, InOrderFrame
  <2>3. CASE s = c
    <3>1. CASE uplink'[s] = <<>> /\ early'[s] = Null
      BY <3>1 DEF InOrder, UuidAt
    <3>2. CASE /\ registrationId' # Null /\ early'[s] = registrationId'
               /\ uplink'[s] = <<PushIdMessage(registrationId')>>
      BY <3>2 DEF InOrder, UuidAt, PushIdMessage
    <3> QED
      BY <1>5, <2>3, <3>1, <3>2, ArriveStep
  <2> QED
    BY <2>2, <2>3
<1>6. ASSUME NEW c \in Sockets, Handle(c), NEW s \in Sockets PROVE InOrder(s)'
  <2>1. InOrder(s)
    BY DEF OrderInv
  <2>2. CASE s # c
    BY <1>0, <1>6, <2>1, <2>2, HandleStep, LinkTypes, InOrderFrame
  <2>3. CASE s = c
    <3> DEFINE q == uplink[s]
               t == Tail(q)
    <3>1. /\ q # <<>> /\ q \in Seq(App!Emits) /\ uplink'[s] = t
          /\ UNCHANGED <<engine, socket, registrationId, early>>
      BY <1>0, <1>6, <2>3, HandleStep, LinkTypes
    <3>2. \A i \in DOMAIN t : i \in Nat /\ i + 1 \in DOMAIN q /\ t[i] = q[i + 1]
      BY <3>1, TailAt
    <3>3. ASSUME s = socket, engine = "open"
          PROVE  /\ early[s] # Null => registrationId # Null
                 /\ \A i \in DOMAIN t : t[i] = PushIdMessage(early[s])
      BY <2>1, <3>2, <3>3 DEF InOrder
    <3>4. ASSUME NEW j \in DOMAIN t, t[j].event = "deviceuuid"
          PROVE  /\ \A i \in DOMAIN t : t[i].event = "deviceuuid" => i = j
                 /\ \A i \in 1..(j - 1) : t[i] = PushIdMessage(early[s])
      <4>1. UuidAt(s, j + 1) /\ j \in Nat
        BY <3>2, <3>4 DEF UuidAt
      <4>2. ASSUME NEW i \in DOMAIN t, t[i].event = "deviceuuid" PROVE i = j
        <5>1. UuidAt(s, i + 1) /\ i \in Nat
          BY <3>2, <4>2 DEF UuidAt
        <5>2. i + 1 = j + 1
          BY <2>1, <4>1, <5>1 DEF InOrder, UuidAt
        <5> QED
          BY <4>1, <5>1, <5>2
      <4>3. ASSUME NEW i \in 1..(j - 1) PROVE t[i] = PushIdMessage(early[s])
        <5>1. t \in Seq(App!Emits)
          BY <3>1, HeadTailProperties
        <5>2. j \in 1..Len(t) /\ Len(t) \in Nat /\ DOMAIN t = 1..Len(t)
          BY <3>4, <5>1, LenProperties
        <5>3. i \in DOMAIN t /\ i + 1 \in 1..(j + 1 - 1)
          <6> HIDE DEF t
          <6> QED
            BY <4>1, <4>3, <5>2
        <5>4. q[i + 1] = PushIdMessage(early[s])
          BY <2>1, <4>1, <5>3 DEF InOrder, UuidAt
        <5> QED
          BY <3>2, <5>3, <5>4
      <4> QED
        BY <4>2, <4>3
    <3> QED
      BY <3>1, <3>3, <3>4 DEF InOrder, UuidAt
  <2> QED
    BY <2>2, <2>3
<1> QED
  BY <1>0, <1>1, <1>2, <1>3, <1>4, <1>5, <1>6, LinkStep DEF OrderInv

(* A socket nothing happens to. *)
LEMMA AnnouncedFrame ==
  ASSUME NEW s \in Sockets, Announcing(s) => Announced(s), Announcing(s)',
         uplink'[s] = uplink[s], early'[s] = early[s],
         deviceUUID'[s] = deviceUUID[s],
         pushRegistrationId'[s] = pushRegistrationId[s],
         (s = socket /\ engine = "open")' => s = socket /\ engine = "open"
  PROVE  Announced(s)'
BY DEF Announcing, Announced, UuidAt

(* setPushUUID() stores the id that is handled ahead of the uuid. *)
LEMMA AnnouncedInvStep ==
  ASSUME DogzTypeInv, LinkInv, [DogzNext]_dogzVars
  PROVE  AnnouncedInv'
<1>0. DogzTypeOK /\ SocketsInv /\ OrderInv /\ AnnouncedInv
  BY DEF DogzTypeInv, LinkInv
<1>1. CASE UNCHANGED linkState
  BY <1>0, <1>1, AnnouncedFrame DEF linkState, AnnouncedInv
<1>2. CASE /\ engine' \notin {"open", "connected"}
           /\ UNCHANGED <<socket, uplink, early, deviceUUID, pushRegistrationId>>
  BY <1>0, <1>2, AnnouncedFrame DEF AnnouncedInv
<1>3. ASSUME NEW p \in PushIds, App!Registered(p), UNCHANGED vars,
             NEW s \in Sockets, Announcing(s)'
      PROVE  Announced(s)'
  <2> DEFINE q == uplink[s]
             t == Append(q, PushIdMessage(p))
  <2>1. q \in Seq(App!Emits) /\ PushIdMessage(p) \in App!Emits
    BY <1>0, LinkTypes DEF App!Emits, PushIdMessage
  <2>2. UNCHANGED <<engine, socket, deviceUUID, pushRegistrationId>>
    BY <1>0, <1>3, RegisteredStep
  <2>3. Announcing(s) => Announced(s)
    BY <1>0 DEF AnnouncedInv
  <2>4. CASE ~App!Current(s)
    BY <1>0, <1>3, <2>2, <2>3, <2>4, RegisteredStep, AnnouncedFrame
  <2>5. CASE App!Current(s)
    <3>1. /\ uplink'[s] = t
          /\ early'[s] = IF engine = "open" THEN p ELSE early[s]
      BY <1>0, <1>3, <2>5, RegisteredStep
    <3>2. /\ \A i \in DOMAIN q : i \in DOMAIN t /\ t[i] = q[i]
          /\ \A j \in DOMAIN t :
               (j \in DOMAIN q /\ t[j] = q[j]) \/ t[j] = PushIdMessage(p)
          /\ t # <<>>
          /\ q = <<>> => t[1] = PushIdMessage(p)
          /\ q # <<>> => 1 \in DOMAIN q
      BY <2>1, AppendAt, AppendKeeps
    <3> HIDE DEF t
    <3>3. Announcing(s)
      BY <1>3, <2>2, <3>1, <3>2 DEF Announcing, UuidAt, PushIdMessage
    <3>4. t[1].event = "pushid" \/ (pushRegistrationId[s] = early[s] /\ engine # "open")
      <4>1. CASE q = <<>>
        BY <3>2, <4>1 DEF PushIdMessage
      <4>2. CASE q # <<>> /\ engine = "open"
        <5>1. q[1] = PushIdMessage(early[s]) /\ t[1] = q[1]
          BY <1>0, <2>5, <3>2, <4>2 DEF OrderInv, InOrder, App!Current
        <5> QED
          BY <5>1 DEF PushIdMessage
      <4>3. CASE q # <<>> /\ engine # "open"
        BY <2>3, <3>2, <3>3, <4>3 DEF Announced
      <4> QED
        BY <4>1, <4>2, <4>3
    <3>5. engine = "open" => pushRegistrationId[s] = Null
      <4>1. ASSUME engine = "open" PROVE early[s] = Null
        BY <1>0, <1>3, <2>5, <4>1, RegisteredStep DEF OrderInv, InOrder, App!Current
      <4> QED
        BY <2>3, <3>3, <4>1 DEF Announced
    <3> QED
      BY <2>2, <2>3, <3>1, <3>2, <3>3, <3>4, <3>5 DEF Announced
  <2> QED
    BY <2>4, <2>5
<1>4. ASSUME App!Connect, UNCHANGED vars, NEW s \in Sockets, Announcing(s)'
      PROVE  Announced(s)'
  <2> DEFINE q == uplink[s]
             u == [event |-> "deviceuuid", id |-> DeviceUUID]
             t == Append(q, u)
  <2>1. q \in Seq(App!Emits) /\ u \in App!Emits
    BY <1>0, LinkTypes DEF App!Emits
  <2>2. Announcing(s) => Announced(s)
    BY <1>0 DEF AnnouncedInv
  <2>3. CASE s # socket
    BY <1>0, <1>4, <2>2, <2>3, ConnectStep, AnnouncedFrame
  <2>4. CASE s = socket
    <3>1. /\ uplink'[s] = t /\ engine = "open"
          /\ UNCHANGED <<early, deviceUUID, pushRegistrationId>>
      BY <1>0, <1>4, <2>4, ConnectStep
    <3>2. t # <<>> /\ (q # <<>> => t[1] = q[1])
      BY <2>1, AppendKeeps
    <3> HIDE DEF t
    <3>3. Announced(s)
      BY <2>2, <2>4, <3>1 DEF Announcing
    <3> QED
      BY <3>1, <3>2, <3>3 DEF Announced
  <2> QED
    BY <2>3, <2>4
<1>5. ASSUME NEW c \in Sockets, Arrive(c), NEW s \in Sockets, Announcing(s)'
      PROVE  Announced(s)'
  <2>1. CASE s # c
    BY <1>0, <1>5, <2>1, ArriveStep, AnnouncedFrame DEF AnnouncedInv
  <2>2. CASE s = c
    <3>1. deviceUUID'[s] = Null /\ pushRegistrationId'[s] = Null
      BY <1>0, <1>5, <2>2, ArriveStep DEF SocketsInv
    <3>2. CASE uplink'[s] = <<>> /\ early'[s] = Null
      BY <3>1, <3>2 DEF Announced
    <3>3. CASE uplink'[s] = <<PushIdMessage(registrationId)>>
      BY <3>1, <3>3 DEF Announced, PushIdMessage
    <3> QED
      BY <1>5, <2>2, <3>2, <3>3, ArriveStep
  <2> QED
    BY <2>1, <2>2
<1>6. ASSUME NEW c \in Sockets, Handle(c), NEW s \in Sockets, Announcing(s)'
      PROVE  Announced(s)'
  <2>1. CASE s # c
    BY <1>0, <1>6, <2>1, HandleStep, LinkTypes, AnnouncedFrame DEF AnnouncedInv
  <2>2. CASE s = c
    <3> DEFINE q == uplink[s]
               t == Tail(q)
    <3>1. /\ q # <<>> /\ q \in Seq(App!Emits) /\ uplink'[s] = t
          /\ UNCHANGED <<engine, socket, early>>
      BY <1>0, <1>6, <2>2, HandleStep, LinkTypes
    <3>2. 1 \in DOMAIN q
      BY <3>1
    <3>3. \A i \in DOMAIN t : i \in Nat /\ i >= 1 /\ i + 1 \in DOMAIN q /\ t[i] = q[i + 1]
      <4>1. t \in Seq(App!Emits)
        BY <3>1, HeadTailProperties
      <4>2. DOMAIN t = 1..Len(t) /\ Len(t) \in Nat
        BY <4>1, LenProperties
      <4>3. \A i \in DOMAIN t : i \in Nat /\ i >= 1
        BY <4>2
      <4> QED
        BY <3>1, <4>3, TailAt
    <3>4. InOrder(s) /\ (Announcing(s) => Announced(s))
      BY <1>0 DEF OrderInv, AnnouncedInv
    <3> HIDE DEF t
    <3>5. Announcing(s) /\ q[1] = PushIdMessage(early[s])
      <4>1. CASE (s = socket /\ engine = "open")'
        BY <3>1, <3>2, <3>4, <4>1 DEF Announcing, InOrder
      <4>2. CASE \E j \in DOMAIN t : t[j].event = "deviceuuid"
        <5>1. PICK j \in DOMAIN t : t[j].event = "deviceuuid"
          BY <4>2
        <5>2. UuidAt(s, j + 1) /\ j \in Nat /\ j >= 1
          BY <3>3, <5>1 DEF UuidAt
        <5>3. 1 \in 1..(j + 1 - 1)
          BY <5>2
        <5> QED
          BY <3>4, <5>2, <5>3 DEF Announcing, InOrder, UuidAt
      <4> QED
        BY <1>6, <3>1, <4>1, <4>2 DEF Announcing, UuidAt
    <3>6. /\ pushRegistrationId' = [pushRegistrationId EXCEPT ![s] = early[s]]
          /\ UNCHANGED deviceUUID
      BY <1>0, <1>6, <2>2, <3>5, HandleStep DEF UuidAt, PushIdMessage
    <3> QED
      BY <1>0, <3>1, <3>4, <3>5, <3>6, LinkTypes DEF Announced
  <2> QED
    BY <2>1, <2>2
<1> QED
  BY <1>0, <1>1, <1>2, <1>3, <1>4, <1>5, <1>6, LinkStep DEF AnnouncedInv

(* What is under way to the middleware, at every time. *)
THEOREM LinkInvAlways == DogzSpec => []LinkInv
<1>1. DogzInit => LinkInv
  <2> SUFFICES ASSUME DogzInit PROVE LinkInv
    OBVIOUS
  <2>1. /\ engine = "none"
        /\ uplink = [s \in Sockets |-> <<>>] /\ early = [s \in Sockets |-> Null]
        /\ deviceUUID = [s \in Sockets |-> Null]
        /\ pushRegistrationId = [s \in Sockets |-> Null]
    BY AppSockets DEF DogzInit, App!Init, Init, Phones!Init
  <2>2. \A s \in Sockets : DOMAIN uplink[s] = {}
    BY <2>1
  <2> QED
    BY <2>1, <2>2
    DEF LinkInv, SocketsInv, OrderInv, InOrder, AnnouncedInv, Announcing, UuidAt
<1>2. DogzTypeInv /\ LinkInv /\ [DogzNext]_dogzVars => LinkInv'
  BY SocketsInvStep, OrderInvStep, AnnouncedInvStep DEF LinkInv
<1> QED
  BY <1>1, <1>2, DogzTypeInvAlways, PTL DEF DogzSpec

-----------------------------------------------------------------------------
(* What the push table may have of the phone: an id that went ahead of its uuid. *)
EarlyIds == {early[s] : s \in Sockets} \ {Null}
Possible == EarlyIds \cup {Null}

(* The texts that have of the phone only what is possible. *)
PossibleTables == {t \in Push!Tables : t[DeviceUUID] \in Possible}
PossibleWrites == [table : PossibleTables, opened : BOOLEAN]

TableInv ==
  /\ devices \in PossibleTables
  /\ file \in PossibleTables \cup {Absent} \cup Push!Unparsable
  /\ writes \in Seq(PossibleWrites)
  /\ connections # {} => up
  /\ \A s \in connections :
       /\ deviceUUID[s] # Null
       /\ early[s] # Null => devices[DeviceUUID] # Null

(* An id that went ahead stays the one that did; where one appears the uuid is
   still to be handled. *)
LEMMA EarlyStep ==
  ASSUME DogzTypeInv, LinkInv, [DogzNext]_dogzVars, NEW s \in Sockets,
         early'[s] # early[s]
  PROVE  early[s] = Null /\ deviceUUID[s] = Null
<1>0. DogzTypeOK /\ SocketsInv /\ OrderInv /\ AnnouncedInv
  BY DEF DogzTypeInv, LinkInv
<1>1. ASSUME NEW p \in PushIds, App!Registered(p), UNCHANGED vars
      PROVE  early[s] = Null /\ deviceUUID[s] = Null
  <2>1. App!Current(s) /\ engine = "open" /\ registrationId = Null
    BY <1>0, <1>1, RegisteredStep
  <2>2. Announcing(s) /\ s = socket
    BY <2>1 DEF Announcing, App!Current
  <2> QED
    BY <1>0, <2>1, <2>2 DEF OrderInv, InOrder, AnnouncedInv, Announced
<1>2. ASSUME NEW c \in Sockets, Arrive(c)
      PROVE  early[s] = Null /\ deviceUUID[s] = Null
  <2>1. c = s /\ s > socket
    BY <1>2, ArriveStep
  <2> QED
    BY <1>0, <2>1 DEF SocketsInv
<1>3. ASSUME NEW c \in Sockets, Handle(c) PROVE FALSE
  BY <1>0, <1>3, HandleStep
<1>4. CASE App!Connect /\ UNCHANGED vars
  BY <1>0, <1>4, ConnectStep
<1> QED
  BY <1>0, <1>1, <1>2, <1>3, <1>4, LinkStep DEF linkState

(* What went ahead once stays. *)
LEMMA PossibleGrows ==
  ASSUME DogzTypeInv, LinkInv, [DogzNext]_dogzVars
  PROVE  /\ Possible \subseteq Possible'
         /\ PossibleTables \subseteq PossibleTables'
         /\ PossibleWrites \subseteq PossibleWrites'
         /\ Seq(PossibleWrites) \subseteq Seq(PossibleWrites')
<1>1. \A s \in Sockets : early[s] # Null => early'[s] = early[s]
  BY EarlyStep
<1>2. Possible \subseteq Possible'
  BY <1>1 DEF Possible, EarlyIds
<1>3. PossibleTables \subseteq PossibleTables'
  BY <1>2 DEF PossibleTables
<1>4. PossibleWrites \subseteq PossibleWrites'
  BY <1>3 DEF PossibleWrites
<1> QED
  BY <1>2, <1>3, <1>4

(* The device joins the table with the early id, or with none. *)
LEMMA DeviceJoins ==
  ASSUME DogzTypeInv, LinkInv, TableInv, NEW s \in Sockets, UuidAt(s, 1)
  PROVE  /\ pushRegistrationId[s] = early[s]
         /\ early[s] # Null => early[s] \in EarlyIds
<1>1. Announced(s)
  BY DEF LinkInv, AnnouncedInv, Announcing, UuidAt
<1> QED
  BY <1>1 DEF Announced, UuidAt, EarlyIds

(* addDevice() is called when the uuid is handled, with the id the Connection has. *)
LEMMA TableInvHandle ==
  ASSUME DogzTypeInv, LinkInv, TableInv, NEW s \in Sockets, Handle(s),
         UuidAt(s, 1), SetDeviceUUID(s, DeviceUUID)
  PROVE  TableInv'
<1>0. /\ DogzTypeOK /\ early' = early
      /\ deviceUUID' = [deviceUUID EXCEPT ![s] = DeviceUUID]
      /\ deviceUUID \in [Sockets -> DeviceIds \cup {Null}]
      /\ connections \subseteq Sockets
  <2>1. DogzTypeOK
    BY DEF DogzTypeInv
  <2> QED
    BY <2>1, HandleStep, LinkTypes
    DEF SetDeviceUUID, Phones!SetDeviceUUID, DogzTypeOK, TypeOK, Phones!TypeOK
<1>1. /\ Push!AddDevice(DeviceUUID, early[s])
      /\ connections' = connections \cup {s}
  BY DeviceJoins DEF SetDeviceUUID, Phones!SetDeviceUUID
<1>2. up /\ UNCHANGED <<up, file>> /\ DeviceUUID # Null
  BY <1>1, DeviceAssumption DEF Push!AddDevice
<1>3. PossibleTables' = PossibleTables /\ PossibleWrites' = PossibleWrites
  BY <1>0 DEF PossibleTables, PossibleWrites, Possible, EarlyIds
<1>4. CASE early[s] = Null
  <2>1. UNCHANGED <<devices, writes>>
    BY <1>1, <1>4 DEF Push!AddDevice
  <2> QED
    BY <1>0, <1>1, <1>2, <1>3, <1>4, <2>1 DEF TableInv
<1>5. CASE early[s] # Null
  <2> DEFINE d == [devices EXCEPT ![DeviceUUID] = early[s]]
             w == [table |-> d, opened |-> FALSE]
  <2>1. early[s] \in EarlyIds /\ early[s] \in PushIds
    BY <1>0, <1>5, DeviceJoins, LinkTypes
  <2>2. d \in PossibleTables /\ d[DeviceUUID] = early[s]
    BY <2>1, DeviceAssumption DEF TableInv, PossibleTables, Possible, Push!Tables
  <2>3. devices' = d /\ writes' = Append(writes, w)
    BY <1>1, <1>2, <1>5 DEF Push!AddDevice, Push!Stringified
  <2> HIDE DEF d
  <2>4. w \in PossibleWrites
    BY <2>2 DEF PossibleWrites
  <2> HIDE DEF w
  <2>5. writes' \in Seq(PossibleWrites)
    BY <2>3, <2>4, AppendProperties DEF TableInv
  <2> QED
    BY <1>0, <1>1, <1>2, <1>3, <1>5, <2>2, <2>3, <2>5 DEF TableInv
<1> QED
  BY <1>4, <1>5

(* What the disk does to the file and the calls under way. *)
LEMMA TableInvPersist ==
  ASSUME TableInv, TypeOK, Push!Persist
  PROVE  /\ UNCHANGED <<up, devices>>
         /\ file' \in PossibleTables \cup {Absent} \cup Push!Unparsable
         /\ writes' \in Seq(PossibleWrites)
<1>0. writes \in Seq(PossibleWrites) /\ Len(writes) \in Nat
  BY LenProperties DEF TableInv
<1>1. PICK i \in DOMAIN writes : Push!OpenFile(i) \/ Push!WriteFile(i)
  BY DEF Push!Persist
<1>2. writes[i] \in PossibleWrites /\ i \in 1..Len(writes)
  BY <1>0, <1>1
<1>3. CASE Push!OpenFile(i)
  <2>1. [table |-> writes[i].table, opened |-> TRUE] \in PossibleWrites
    BY <1>2 DEF PossibleWrites
  <2>2. writes' \in Seq(PossibleWrites)
    BY <1>0, <1>2, <1>3, <2>1, ExceptSeq DEF Push!OpenFile
  <2> QED
    BY <1>3, <2>2 DEF Push!OpenFile, Push!Unparsable
<1>4. CASE Push!WriteFile(i)
  <2>1. \A j \in 1..Len(writes) : writes[j] \in PossibleWrites
    BY <1>0, ElementOfSeq
  <2>2. i \in Nat /\ 1 <= i /\ i <= Len(writes)
    BY <1>0, <1>2
  <2>3. /\ SubSeq(writes, 1, i - 1) \in Seq(PossibleWrites)
        /\ SubSeq(writes, i + 1, Len(writes)) \in Seq(PossibleWrites)
    BY <1>0, <2>1, <2>2, SubSeqProperties
  <2>4. writes' \in Seq(PossibleWrites)
    BY <1>4, <2>3, ConcatProperties DEF Push!WriteFile, Push!Without
  <2>5. file' \in PossibleTables \cup {Garbled}
    BY <1>2, <1>4 DEF Push!WriteFile, Push!Overwritten, PossibleWrites
  <2> QED
    BY <1>4, <2>4, <2>5 DEF Push!WriteFile, Push!Unparsable
<1> QED
  BY <1>1, <1>3, <1>4

(* The other steps write and read back what the table was. *)
LEMMA TableInvStep ==
  ASSUME DogzTypeInv, LinkInv, TableInv, [DogzNext]_dogzVars
  PROVE  TableInv'
<1>0. /\ DogzTypeOK /\ TypeOK /\ connections \subseteq Sockets
      /\ \A s \in connections : early'[s] = early[s]
  <2>1. DogzTypeOK /\ TypeOK /\ connections \subseteq Sockets
    BY DEF DogzTypeInv, DogzTypeOK, TypeOK, Phones!TypeOK
  <2> QED
    BY <2>1, EarlyStep DEF TableInv
<1>1. ASSUME UNCHANGED <<devices, file, writes, up, deviceUUID>>,
             connections' \subseteq connections
      PROVE  TableInv'
  BY <1>0, <1>1, PossibleGrows DEF TableInv
<1>2. CASE PhoneStep
  BY <1>1, <1>2 DEF PhoneStep, vars, pushVars, phonesVars
<1>3. ASSUME NEW s \in Sockets, Arrive(s) PROVE TableInv'
  BY <1>1, <1>3
  DEF Arrive, NewConnection, Phones!NewConnection, Phones!ids, pushVars
<1>4. ASSUME NEW s \in Sockets, Hear(s) PROVE TableInv'
  BY <1>1, <1>4 DEF Hear, Deliver, Phones!Deliver, Phones!ids, pushVars
<1>5. ASSUME NEW s \in Sockets, Handle(s) PROVE TableInv'
  <2>1. CASE SetPushUUID(s, uplink[s][1].id) /\ UNCHANGED deviceUUID
    BY <1>1, <2>1 DEF SetPushUUID, Phones!SetPushUUID, pushVars
  <2>2. CASE UuidAt(s, 1) /\ SetDeviceUUID(s, DeviceUUID)
    BY <1>5, <2>2, TableInvHandle
  <2> QED
    BY <1>0, <1>5, <2>1, <2>2, HandleStep
<1>6. ASSUME UNCHANGED <<deviceUUID, early, connections, up>>,
             UNCHANGED devices,
             file' \in PossibleTables \cup {Absent} \cup Push!Unparsable,
             writes' \in Seq(PossibleWrites)
      PROVE  TableInv'
  BY <1>0, <1>6, PossibleGrows DEF TableInv
<1>7. ASSUME Persist, UNCHANGED phoneVars PROVE TableInv'
  <2>1. UNCHANGED <<deviceUUID, early, connections>>
    BY <1>7 DEF Persist, phonesVars, phoneVars
  <2> QED
    BY <1>0, <1>6, <1>7, <2>1, TableInvPersist DEF Persist
<1>8. ASSUME Run, UNCHANGED phoneVars PROVE TableInv'
  <2>1. Push!Start /\ UNCHANGED <<connections, deviceUUID, early>>
    BY <1>8 DEF Run, Phones!StartListening, Phones!ids, phoneVars
  <2>2. connections = {}
    BY <2>1 DEF Push!Start, TableInv
  <2>3. Push!NoDevices \in PossibleTables
    BY DeviceAssumption DEF Push!NoDevices, PossibleTables, Push!Tables, Possible
  <2>4. Push!Recovered \in PossibleTables
    BY <2>1, <2>3 DEF Push!Start, Push!Parses, Push!Recovered, TableInv
  <2> QED
    BY <2>1, <2>2, <2>4, PossibleGrows DEF TableInv, Push!Start
<1>9. ASSUME Crash, UNCHANGED phoneVars PROVE TableInv'
  <2>1. connections' = {} /\ UNCHANGED <<devices, file>> /\ writes' = <<>>
    BY <1>9 DEF Crash, Phones!StopListening, Push!Crash
  <2>2. <<>> \in Seq(PossibleWrites')
    OBVIOUS
  <2> QED
    BY <2>1, <2>2, PossibleGrows DEF TableInv
<1>10. CASE ServerStep
  <2>1. ASSUME NEW k \in Services,
               MissResult(k) \/ \E r \in Reports : ProcessMessage(k, r)
        PROVE  TableInv'
    BY <1>1, <2>1
    DEF MissResult, ProcessMessage, Phones!SpreadMessage, Phones!ids, pushVars,
        phonesVars
  <2>2. ASSUME NEW s \in Sockets, ProcessDisconnection(s) PROVE TableInv'
    BY <1>1, <2>2
    DEF ProcessDisconnection, Phones!ProcessDisconnection, Phones!ids, pushVars
  <2> QED
    BY <1>7, <1>8, <1>9, <1>10, <2>1, <2>2 DEF ServerStep
<1>11. CASE UNCHANGED dogzVars
  BY <1>1, <1>11 DEF dogzVars, vars, pushVars, phonesVars
<1> QED
  BY <1>2, <1>3, <1>4, <1>5, <1>10, <1>11 DEF DogzNext

(* The table, its file and the writes under way have of the phone only ids that went
   ahead of its uuid, at every time. *)
THEOREM TableInvAlways == DogzSpec => []TableInv
<1>1. DogzInit => TableInv
  <2> SUFFICES ASSUME DogzInit PROVE TableInv
    OBVIOUS
  <2>1. /\ connections = {} /\ devices = Push!NoDevices /\ file = Absent
        /\ writes = <<>>
    BY DEF DogzInit, Init, Phones!Init, Push!Init
  <2>2. Push!NoDevices \in PossibleTables
    BY DeviceAssumption DEF Push!NoDevices, PossibleTables, Push!Tables, Possible
  <2>3. <<>> \in Seq(PossibleWrites)
    OBVIOUS
  <2> QED
    BY <2>1, <2>2, <2>3 DEF TableInv
<1>2. DogzTypeInv /\ LinkInv /\ TableInv /\ [DogzNext]_dogzVars => TableInv'
  BY TableInvStep
<1> QED
  BY <1>1, <1>2, DogzTypeInvAlways, LinkInvAlways, PTL DEF DogzSpec

(* The push table has of the phone only ids that went ahead of its uuid, and has one
   when the phone is ready on a socket where one did, for any number of sockets,
   restarts and writes in any order. *)
THEOREM AlwaysRegisteredExactlyWhenEarly == DogzSpec => []RegisteredExactlyWhenEarly
<1>1. TableInv => RegisteredExactlyWhenEarly
  BY DEF TableInv, PossibleTables, Possible, EarlyIds, RegisteredExactlyWhenEarly
<1> QED
  BY <1>1, TableInvAlways, PTL
=============================================================================

--------------------------- MODULE Middleware_proofs ---------------------------
(***************************************************************************)
(* Proofs about the middleware process, for every finite set of services,  *)
(* every set of phones and any number of results and restarts: the types   *)
(* of the composition, and what a phone is given of each service.          *)
(***************************************************************************)
EXTENDS Middleware, SequenceLemmas, FiniteSetTheorems

(* The orderings of a finite set are sequences over it. *)
LEMMA OrderingsAreSequences ==
  ASSUME NEW S, IsFiniteSet(S), NEW q \in Orderings(S)
  PROVE  q \in Seq(S) /\ Len(q) = Cardinality(S)
<1>1. Cardinality(S) \in Nat
  BY FS_CardinalityType
<1>2. q \in [1..Cardinality(S) -> S]
  BY DEF Orderings
<1> QED
  BY <1>1, <1>2

(* The board has an entry for a finite number of services. *)
LEMMA GetAllFinite ==
  ASSUME statuses \in [Services -> Board!Status \cup {NoStatus}]
  PROVE  IsFiniteSet(Board!GetAll) /\ Board!GetAll \subseteq Board!Status
<1> DEFINE S == {k \in Services : Board!Known(k)}
<1>1. IsFiniteSet(S)
  BY ServicesAssumption, FS_Subset
<1> DEFINE f == [k \in S |-> statuses[k]]
<1>2. f \in Surjection(S, Board!GetAll)
  BY DEF Surjection, Board!GetAll
<1>3. IsFiniteSet(Board!GetAll)
  BY <1>1, <1>2, FS_Surjection
<1> QED
  BY <1>3 DEF Board!GetAll, Board!Known

(* What updateStatus() stores of a result is a status entry. *)
LEMMA StatusMade ==
  ASSUME Board!TypeOK, NEW e \in Board!Event
  PROVE  [event |-> e, historicData |-> Board!Historic(e)] \in Board!Status
<1>1. e.service \in Services
  BY DEF Board!Event
<1>2. Board!Historic(e) \in Seq(Board!Event)
  <2>1. CASE ~Board!Known(e.service)
    BY <2>1 DEF Board!Historic, Board!FirstHistoric
  <2>2. CASE Board!Known(e.service)
    <3> DEFINE g == statuses[e.service].historicData
               h == Append(g, e)
    <3>1. g \in Seq(Board!Event)
      BY <1>1, <2>2 DEF Board!TypeOK, Board!Known, Board!Status
    <3> HIDE DEF g
    <3>2. h \in Seq(Board!Event) /\ h # <<>>
      <4>1. \A q \in Seq(Board!Event) :
              Append(q, e) \in Seq(Board!Event) /\ Append(q, e) # <<>>
        BY AppendProperties
      <4> QED
        BY <3>1, <4>1
    <3> HIDE DEF h
    <3>3. Tail(h) \in Seq(Board!Event)
      BY <3>2, HeadTailProperties
    <3>4. Board!Shifted(h) \in Seq(Board!Event)
      BY <3>2, <3>3 DEF Board!Shifted
    <3> QED
      BY <2>2, <3>4 DEF Board!Historic, g, h
  <2> QED
    BY <2>1, <2>2
<1> QED
  BY <1>2 DEF Board!Status

-----------------------------------------------------------------------------
(* Every handler keeps the types of the board, and Nagios those of its counts. *)
LEMMA BoardTypes ==
  ASSUME TypeOK, [Next]_vars
  PROVE  /\ Board!TypeOK'
         /\ (produced \in [Services -> 0..MaxEvents])'
<1> USE DEF TypeOK, Board!TypeOK
<1>1. ASSUME NEW k \in Services, Produce(k)
      PROVE  produced' \in [Services -> 0..MaxEvents]
  BY <1>1, MaxEventsAssumption DEF Produce
<1>2. ASSUME NEW k \in Services, NEW r \in Reports, ProcessMessage(k, r)
      PROVE  Board!TypeOK'
  <2> DEFINE e == [service |-> k, timestamp |-> produced[k] + 1, report |-> r]
  <2>1. e \in Board!Event
    BY MaxEventsAssumption DEF Board!Event
  <2>2. Board!UpdateStatus(e)
    BY <1>2 DEF ProcessMessage
  <2>3. e.service = k
    OBVIOUS
  <2> HIDE DEF e
  <2>4. [event |-> e, historicData |-> Board!Historic(e)] \in Board!Status
    BY <2>1, StatusMade
  <2>5. Append(log[k], e) \in Seq(Board!Event)
    BY <2>1
  <2> QED
    BY <2>2, <2>3, <2>4, <2>5 DEF Board!UpdateStatus
<1>3. ASSUME Crash PROVE Board!TypeOK'
  BY <1>3 DEF Crash
<1>4. CASE UNCHANGED <<statuses, log, produced>>
  BY <1>4
<1>5. ASSUME NEW k \in Services, MissResult(k) PROVE UNCHANGED <<statuses, log>>
  BY <1>5 DEF MissResult, boardVars
<1> QED
  BY <1>1, <1>2, <1>3, <1>4, <1>5
  DEF Next, vars, boardVars, Run, Crash, Persist, ProcessMessage, MissResult,
      NewConnection, SetPushUUID, SetDeviceUUID, ProcessDisconnection, Deliver

(* Every handler keeps the types of the connections. *)
LEMMA PhonesTypes ==
  ASSUME TypeOK, [Next]_vars
  PROVE  Phones!TypeOK'
<1> USE DEF Phones!TypeOK
<1>0. Phones!TypeOK
  BY DEF TypeOK
<1>1. CASE Run
  BY <1>0, <1>1 DEF Run, Phones!StartListening, Phones!ids, Phones!history
<1>2. CASE Crash
  <2>1. <<>> \in Seq(Messages)
    OBVIOUS
  <2> QED
    BY <1>0, <1>2, <2>1
    DEF Crash, Phones!StopListening, Phones!Drop, Phones!ids, Phones!history
<1>3. ASSUME NEW k \in Services, NEW r \in Reports, ProcessMessage(k, r)
      PROVE  Phones!TypeOK'
  <2> DEFINE e == [service |-> k, timestamp |-> produced[k] + 1, report |-> r]
  <2>1. e \in Messages
    BY MaxEventsAssumption DEF TypeOK, Messages, Board!Event
  <2>2. Phones!SpreadMessage(e)
    BY <1>3 DEF ProcessMessage
  <2> HIDE DEF e
  <2>3. Append(spread, e) \in Seq(Messages)
    BY <1>0, <2>1, AppendProperties
  <2>4. \A s \in Sockets : Append(outbox[s], e) \in Seq(Messages)
    BY <1>0, <2>1, AppendProperties
  <2> QED
    BY <1>0, <2>2, <2>3, <2>4 DEF Phones!SpreadMessage, Phones!Emitted, Phones!ids
<1>4. ASSUME NEW s \in Sockets, NewConnection(s) PROVE Phones!TypeOK'
  <2>1. PICK q \in Orderings(Board!GetAll) : Phones!NewConnection(s, q)
    BY <1>4 DEF NewConnection
  <2>2. q \in Seq(Messages)
    <3>1. q \in Seq(Board!GetAll) /\ Board!GetAll \subseteq Messages
      BY GetAllFinite, OrderingsAreSequences DEF TypeOK, Board!TypeOK, Messages
    <3> QED
      BY <3>1
  <2> QED
    BY <1>0, <2>1, <2>2 DEF Phones!NewConnection, Phones!ids
<1>5. ASSUME NEW s \in Sockets, NEW p \in PushIds, SetPushUUID(s, p)
      PROVE  Phones!TypeOK'
  BY <1>0, <1>5 DEF SetPushUUID, Phones!SetPushUUID, Phones!history
<1>6. ASSUME NEW s \in Sockets, NEW u \in DeviceIds, SetDeviceUUID(s, u)
      PROVE  Phones!TypeOK'
  <2>1. Len(spread) \in Nat
    BY <1>0, LenProperties
  <2> QED
    BY <1>0, <1>6, <2>1 DEF SetDeviceUUID, Phones!SetDeviceUUID
<1>7. ASSUME NEW s \in Sockets, ProcessDisconnection(s) PROVE Phones!TypeOK'
  <2>1. <<>> \in Seq(Messages)
    OBVIOUS
  <2> QED
    BY <1>0, <1>7, <2>1 DEF ProcessDisconnection, Phones!ProcessDisconnection,
       Phones!PendingAfter, Phones!Drop, Phones!ids, Phones!history
<1>8. ASSUME NEW s \in Sockets, Deliver(s) PROVE Phones!TypeOK'
  <2>1. Phones!Deliver(s)
    BY <1>8 DEF Deliver
  <2>2. Head(outbox[s]) \in Messages /\ Tail(outbox[s]) \in Seq(Messages)
    BY <1>0, <2>1, HeadTailProperties DEF Phones!Deliver
  <2>3. Append(received[s], Head(outbox[s])) \in Seq(Messages)
    BY <1>0, <2>2, AppendProperties
  <2> QED
    BY <1>0, <2>1, <2>2, <2>3 DEF Phones!Deliver, Phones!ids
<1>9. CASE UNCHANGED phonesVars
  BY <1>0, <1>9 DEF phonesVars
<1> QED
  BY <1>1, <1>2, <1>3, <1>4, <1>5, <1>6, <1>7, <1>8, <1>9
  DEF Next, vars, Persist, MissResult

(* Every handler keeps the types of the push table and its file. *)
LEMMA PushTypes ==
  ASSUME TypeOK, [Next]_vars
  PROVE  Push!TypeOK'
<1> USE DEF Push!TypeOK
<1>0. Push!TypeOK
  BY DEF TypeOK
<1>1. CASE Run
  <2>1. Push!Start
    BY <1>1 DEF Run
  <2>2. Push!NoDevices \in Push!Tables
    BY DEF Push!NoDevices, Push!Tables
  <2> QED
    BY <1>0, <2>1, <2>2 DEF Push!Start, Push!Parses, Push!Recovered
<1>2. CASE Crash
  <2>1. Push!Crash
    BY <1>2 DEF Crash
  <2>2. writes' \in Seq(Push!Writes) /\ crashes' \in Nat
    BY <1>0, <2>1 DEF Push!Crash
  <2>3. up' \in BOOLEAN /\ UNCHANGED <<devices, file, past, overlapped>>
    BY <2>1 DEF Push!Crash
  <2> QED
    BY <1>0, <2>2, <2>3
<1>3. ASSUME NEW s \in Sockets, NEW u \in DeviceIds, SetDeviceUUID(s, u)
      PROVE  Push!TypeOK'
  <2> DEFINE p == pushRegistrationId[s]
  <2>1. Push!AddDevice(u, p) /\ p \in PushIds \cup {Null}
    BY <1>3 DEF SetDeviceUUID, TypeOK, Phones!TypeOK
  <2> HIDE DEF p
  <2>2. CASE u = Null \/ p = Null
    BY <1>0, <2>1, <2>2 DEF Push!AddDevice
  <2>3. CASE ~(u = Null \/ p = Null)
    <3> DEFINE d == [devices EXCEPT ![u] = p]
               w == [table |-> d, opened |-> FALSE]
    <3>1. d \in Push!Tables /\ w \in Push!Writes
      BY <1>0, <2>1 DEF Push!Tables, Push!Writes
    <3>2. /\ devices' = d /\ writes' = Append(writes, w)
          /\ past' = past \cup {d} /\ overlapped' \in BOOLEAN
          /\ UNCHANGED <<up, file, crashes>>
      BY <1>0, <2>1, <2>3 DEF Push!AddDevice, Push!Stringified
    <3> HIDE DEF d, w
    <3>3. Append(writes, w) \in Seq(Push!Writes)
      BY <1>0, <3>1, AppendProperties
    <3> QED
      BY <1>0, <3>1, <3>2, <3>3
  <2> QED
    BY <2>2, <2>3
<1>4. CASE Persist
  <2>1. PICK i \in DOMAIN writes : Push!OpenFile(i) \/ Push!WriteFile(i)
    BY <1>4 DEF Persist, Push!Persist
  <2>2. writes[i] \in Push!Writes /\ i \in 1..Len(writes)
    BY <1>0, <2>1
  <2>3. CASE Push!OpenFile(i)
    <3>1. [table |-> writes[i].table, opened |-> TRUE] \in Push!Writes
      BY <2>2 DEF Push!Writes
    <3>2. writes' \in Seq(Push!Writes)
      BY <1>0, <2>2, <2>3, <3>1, ExceptSeq DEF Push!OpenFile
    <3>3. file' \in Push!Unparsable /\ overlapped' \in BOOLEAN
      BY <1>0, <2>3 DEF Push!OpenFile, Push!Unparsable
    <3> QED
      BY <1>0, <2>3, <3>2, <3>3 DEF Push!OpenFile
  <2>4. CASE Push!WriteFile(i)
    <3>1. writes' \in Seq(Push!Writes)
      <4>1. \A j \in 1..Len(writes) : writes[j] \in Push!Writes
        BY <1>0, ElementOfSeq
      <4>2. Len(writes) \in Nat /\ i \in Nat /\ 1 <= i /\ i <= Len(writes)
        BY <1>0, <2>2, LenProperties
      <4>3. /\ SubSeq(writes, 1, i - 1) \in Seq(Push!Writes)
            /\ SubSeq(writes, i + 1, Len(writes)) \in Seq(Push!Writes)
        BY <1>0, <4>1, <4>2, SubSeqProperties
      <4> QED
        BY <2>4, <4>3, ConcatProperties DEF Push!WriteFile, Push!Without
    <3>2. file' \in Push!Tables \cup {Garbled}
      BY <2>2, <2>4 DEF Push!WriteFile, Push!Overwritten, Push!Writes
    <3> QED
      BY <1>0, <2>4, <3>1, <3>2 DEF Push!WriteFile, Push!Unparsable
  <2> QED
    BY <2>1, <2>3, <2>4
<1>5. CASE UNCHANGED pushVars
  BY <1>0, <1>5 DEF pushVars
<1> QED
  BY <1>1, <1>2, <1>3, <1>4, <1>5
  DEF Next, vars, MissResult, ProcessMessage, NewConnection, SetPushUUID,
      ProcessDisconnection, Deliver

(* The types hold before the process is started. *)
LEMMA TypesInit ==
  ASSUME Init
  PROVE  TypeOK
<1> USE DEF Init
<1>1. /\ <<>> \in Seq(Board!Event) /\ <<>> \in Seq(Messages)
      /\ <<>> \in Seq(Push!Writes) /\ Len(<<>>) = 0
      /\ <<>> \in Seq([event : Board!Event, to : SUBSET PushIds])
  OBVIOUS
<1>2. Board!TypeOK
  BY <1>1 DEF Board!Init, Board!Empty, Board!TypeOK
<1>3. Phones!TypeOK
  <2>1. /\ outbox \in [Sockets -> Seq(Messages)]
        /\ snapshot \in [Sockets -> Seq(Messages)]
        /\ received \in [Sockets -> Seq(Messages)]
    BY <1>1 DEF Phones!Init
  <2>2. joinedAt \in [Sockets -> Nat] /\ spread \in Seq(Messages)
    BY <1>1 DEF Phones!Init
  <2> QED
    BY <2>1, <2>2 DEF Phones!Init, Phones!TypeOK
<1>4. Push!TypeOK
  <2>1. Push!NoDevices \in Push!Tables
    BY DEF Push!NoDevices, Push!Tables
  <2>2. writes \in Seq(Push!Writes)
    BY <1>1 DEF Push!Init
  <2> QED
    BY <2>1, <2>2 DEF Push!Init, Push!TypeOK
<1>5. arrivedAt \in [Sockets -> 0..Len(spread)]
  BY <1>1 DEF Phones!Init
<1>6. produced \in [Services -> 0..MaxEvents]
  BY MaxEventsAssumption
<1>7. alerts \in Seq([event : Board!Event, to : SUBSET PushIds])
  BY <1>1
<1> QED
  BY <1>2, <1>3, <1>4, <1>5, <1>6, <1>7 DEF TypeOK

(* Every handler keeps the types of the composition. *)
LEMMA TypesStep ==
  ASSUME TypeOK, [Next]_vars
  PROVE  TypeOK'
<1>1. arrivedAt' \in [Sockets -> 0..Len(spread')]
  <2>0. spread \in Seq(Messages) /\ Len(spread) \in Nat
        /\ arrivedAt \in [Sockets -> 0..Len(spread)]
    BY LenProperties DEF TypeOK, Phones!TypeOK
  <2>1. ASSUME NEW k \in Services, NEW r \in Reports, ProcessMessage(k, r)
        PROVE  arrivedAt' \in [Sockets -> 0..Len(spread')]
    <3> DEFINE e == [service |-> k, timestamp |-> produced[k] + 1, report |-> r]
    <3>1. spread' = Append(spread, e) /\ UNCHANGED arrivedAt
      BY <2>1 DEF ProcessMessage, Phones!SpreadMessage
    <3>2. e \in Messages
      BY MaxEventsAssumption DEF TypeOK, Messages, Board!Event
    <3> HIDE DEF e
    <3>3. Len(spread') = Len(spread) + 1
      BY <2>0, <3>1, <3>2, AppendProperties
    <3> QED
      BY <2>0, <3>1, <3>3
  <2>2. ASSUME NEW s \in Sockets, NewConnection(s)
        PROVE  arrivedAt' \in [Sockets -> 0..Len(spread')]
    <3>1. spread' = spread /\ arrivedAt' = [arrivedAt EXCEPT ![s] = Len(spread)]
      BY <2>2 DEF NewConnection, Phones!NewConnection
    <3> QED
      BY <2>0, <3>1
  <2>3. CASE UNCHANGED <<spread, arrivedAt>>
    BY <2>0, <2>3
  <2> QED
    BY <2>1, <2>2, <2>3
    DEF Next, vars, phonesVars, Run, Phones!StartListening, Crash,
        Phones!StopListening, Persist, MissResult, SetPushUUID,
        Phones!SetPushUUID, SetDeviceUUID, Phones!SetDeviceUUID,
        ProcessDisconnection, Phones!ProcessDisconnection, Deliver,
        Phones!Deliver, Phones!history
<1>2. alerts' \in Seq([event : Board!Event, to : SUBSET PushIds])
  <2>0. alerts \in Seq([event : Board!Event, to : SUBSET PushIds])
    BY DEF TypeOK
  <2>1. ASSUME NEW k \in Services, NEW r \in Reports, ProcessMessage(k, r)
        PROVE  alerts' \in Seq([event : Board!Event, to : SUBSET PushIds])
    <3> DEFINE e == [service |-> k, timestamp |-> produced[k] + 1, report |-> r]
               a == [event |-> e, to |-> RegistrationTokens]
    <3>1. DoPush(e)
      BY <2>1 DEF ProcessMessage
    <3>2. e \in Board!Event
      BY MaxEventsAssumption DEF TypeOK, Board!Event
    <3>3. RegistrationTokens \subseteq PushIds
      BY DEF TypeOK, Push!TypeOK, Push!Tables, RegistrationTokens
    <3>4. alerts' = alerts \/ alerts' = Append(alerts, a)
      BY <3>1 DEF DoPush
    <3>5. a \in [event : Board!Event, to : SUBSET PushIds]
      BY <3>2, <3>3
    <3> HIDE DEF a
    <3> DEFINE A == [event : Board!Event, to : SUBSET PushIds]
    <3>6. alerts \in Seq(A) /\ a \in A
      BY <2>0, <3>5
    <3> HIDE DEF A
    <3>7. alerts' \in Seq(A)
      BY <3>4, <3>6, AppendProperties
    <3> QED
      BY <3>7 DEF A
  <2>2. CASE Crash
    BY <2>2 DEF Crash
  <2>3. CASE UNCHANGED alerts
    BY <2>0, <2>3
  <2> QED
    BY <2>1, <2>2, <2>3
    DEF Next, vars, boardVars, Run, Persist, MissResult, NewConnection,
        SetPushUUID, SetDeviceUUID, ProcessDisconnection, Deliver
<1> QED
  BY <1>1, <1>2, BoardTypes, PhonesTypes, PushTypes DEF TypeOK

(* Every reachable state of the composition is well typed. *)
THEOREM TypeCorrect == Spec => []TypeOK
BY TypesInit, TypesStep, PTL DEF Spec

-----------------------------------------------------------------------------
(* A result is no status entry: what a message is about is well defined. *)
LEMMA EventOfMessage ==
  /\ \A m \in Messages : EventOf(m) \in Board!Event
  /\ \A e \in Board!Event : EventOf(e) = e
  /\ \A st \in Board!Status : EventOf(st) = st.event
<1>1. ASSUME NEW e \in Board!Event PROVE e \notin Board!Status
  <2>1. ~("historicData" \in DOMAIN e)
    BY DEF Board!Event
  <2> QED
    BY <2>1 DEF Board!Status
<1>2. \A st \in Board!Status : st.event \in Board!Event
  BY DEF Board!Status
<1> QED
  BY <1>1, <1>2 DEF EventOf, Messages

(* In q the results of each service come in increasing order. *)
Ordered(q) ==
  \A i, j \in DOMAIN q :
    LET a == EventOf(q[i])
        b == EventOf(q[j])
    IN  i < j /\ a.service = b.service => a.timestamp < b.timestamp

(* Nothing in q is ahead of what Nagios has produced. *)
Produced(q, p) ==
  \A i \in DOMAIN q : EventOf(q[i]).timestamp <= p[EventOf(q[i]).service]

(* A result newer than all of its service goes to the end. *)
LEMMA OrderedAppend ==
  ASSUME NEW q \in Seq(Messages), NEW p \in [Services -> Nat],
         Ordered(q), Produced(q, p),
         NEW e \in Board!Event, e.timestamp = p[e.service] + 1,
         NEW r \in [Services -> Nat], r = [p EXCEPT ![e.service] = @ + 1]
  PROVE  Ordered(Append(q, e)) /\ Produced(Append(q, e), r)
<1> DEFINE t == Append(q, e)
<1>1. e \in Messages /\ EventOf(e) = e /\ e.service \in Services /\ e.timestamp \in Nat
  BY EventOfMessage DEF Messages, Board!Event
<1>2. /\ DOMAIN t = 1..(Len(q) + 1)
      /\ DOMAIN q = 1..Len(q)
      /\ Len(q) \in Nat
      /\ \A i \in 1..Len(q) : t[i] = q[i]
      /\ t[Len(q) + 1] = e
  BY <1>1
<1> HIDE DEF t
<1>3. ASSUME NEW i \in DOMAIN q
      PROVE  /\ EventOf(q[i]).service \in Services
             /\ EventOf(q[i]).timestamp \in Nat
             /\ EventOf(q[i]).timestamp <= p[EventOf(q[i]).service]
  <2>1. q[i] \in Messages
    BY <1>2
  <2> QED
    BY <2>1, EventOfMessage DEF Board!Event, Produced
<1>4. ASSUME NEW i \in DOMAIN t, NEW j \in DOMAIN t, i < j,
             EventOf(t[i]).service = EventOf(t[j]).service
      PROVE  EventOf(t[i]).timestamp < EventOf(t[j]).timestamp
  <2>1. i \in DOMAIN q /\ t[i] = q[i]
    BY <1>2, <1>4
  <2>2. CASE j \in DOMAIN q
    BY <1>2, <1>4, <2>1, <2>2 DEF Ordered
  <2>3. CASE j = Len(q) + 1
    <3>1. EventOf(t[j]) = e
      BY <1>1, <1>2, <2>3
    <3>2. EventOf(t[i]).timestamp \in Nat /\ EventOf(t[i]).timestamp <= p[e.service]
      BY <1>3, <1>4, <2>1, <3>1
    <3> QED
      BY <1>1, <3>1, <3>2
  <2> QED
    BY <1>2, <2>2, <2>3
<1>5. ASSUME NEW i \in DOMAIN t
      PROVE  EventOf(t[i]).timestamp <= r[EventOf(t[i]).service]
  <2>1. CASE i \in DOMAIN q
    BY <1>2, <1>3, <2>1, <1>1
  <2>2. CASE i = Len(q) + 1
    BY <1>1, <1>2, <2>2
  <2> QED
    BY <1>2, <2>1, <2>2
<1>6. Ordered(t) /\ Produced(t, r)
  BY <1>4, <1>5 DEF Ordered, Produced
<1> QED
  BY <1>6 DEF t

(* Nagios going on leaves nothing ahead of it. *)
LEMMA ProducedLater ==
  ASSUME NEW q \in Seq(Messages), NEW p \in [Services -> Nat], Produced(q, p),
         NEW k \in Services, NEW r, r = [p EXCEPT ![k] = @ + 1]
  PROVE  Produced(q, r)
<1>1. ASSUME NEW i \in DOMAIN q
      PROVE  EventOf(q[i]).timestamp <= r[EventOf(q[i]).service]
  <2>1. q[i] \in Messages
    OBVIOUS
  <2>2. EventOf(q[i]).service \in Services /\ EventOf(q[i]).timestamp \in Nat
    BY <2>1, EventOfMessage DEF Board!Event
  <2>3. EventOf(q[i]).timestamp <= p[EventOf(q[i]).service]
    BY DEF Produced
  <2> QED
    BY <2>2, <2>3
<1> QED
  BY <1>1 DEF Produced

(* What is lost of a stream is its end. *)
LEMMA OrderedPrefix ==
  ASSUME NEW q \in Seq(Messages), NEW t \in Seq(Messages), NEW p,
         Ordered(q \o t), Produced(q \o t, p)
  PROVE  Ordered(q) /\ Produced(q, p)
<1>1. DOMAIN q \subseteq DOMAIN (q \o t) /\ \A i \in DOMAIN q : (q \o t)[i] = q[i]
  OBVIOUS
<1> QED
  BY <1>1 DEF Ordered, Produced

(* The board shows results Nagios has produced, each for its own service. *)
BoardBehind ==
  \A k \in Services : Board!Known(k) =>
    /\ statuses[k].event.service = k
    /\ statuses[k].event.timestamp <= produced[k]

(* The entries of the board make an ordered snapshot. *)
LEMMA SnapshotOrdered ==
  ASSUME statuses \in [Services -> Board!Status \cup {NoStatus}], BoardBehind,
         NEW q \in Orderings(Board!GetAll)
  PROVE  Ordered(q) /\ Produced(q, produced)
<1>1. q \in Seq(Board!GetAll)
  BY GetAllFinite, OrderingsAreSequences
<1>2. ASSUME NEW i \in DOMAIN q
      PROVE  \E k \in Services : /\ Board!Known(k)
                                 /\ q[i] = statuses[k]
                                 /\ EventOf(q[i]) = statuses[k].event
  <2>1. q[i] \in Board!GetAll
    BY <1>1
  <2>2. PICK k \in Services : Board!Known(k) /\ q[i] = statuses[k]
    BY <2>1 DEF Board!GetAll
  <2>3. statuses[k] \in Board!Status
    BY <2>2 DEF Board!Known
  <2> QED
    BY <2>2, <2>3, EventOfMessage
<1>3. \A i, j \in DOMAIN q : q[i] = q[j] => i = j
  BY DEF Orderings
<1>4. ASSUME NEW i \in DOMAIN q, NEW j \in DOMAIN q, i < j,
             EventOf(q[i]).service = EventOf(q[j]).service
      PROVE  FALSE
  <2>1. i \in Nat /\ j \in Nat /\ i # j
    BY <1>1, <1>4
  <2>2. q[i] = q[j]
    BY <1>2, <1>4 DEF BoardBehind
  <2> QED
    BY <1>3, <2>1, <2>2
<1>5. \A i \in DOMAIN q : EventOf(q[i]).timestamp <= produced[EventOf(q[i]).service]
  BY <1>2 DEF BoardBehind
<1> QED
  BY <1>4, <1>5 DEF Ordered, Produced

(* A socket that has not connected is in no dictionary and has been given
   nothing. *)
Fresh ==
  \A s \in Sockets :
    socketState[s] = "new" =>
      s \notin connections /\ received[s] = <<>> /\ outbox[s] = <<>>

(* The streams are ordered and hold nothing Nagios has not produced. *)
StreamsOrdered ==
  \A s \in Sockets : Ordered(Stream(s)) /\ Produced(Stream(s), produced)

(* The inductive invariant of the streams. *)
StreamInv == BoardBehind /\ Fresh /\ StreamsOrdered

(* A result goes on the board when Nagios has produced it. *)
LEMMA BoardBehindStep ==
  ASSUME TypeOK, BoardBehind, [Next]_vars
  PROVE  BoardBehind'
<1>1. /\ statuses \in [Services -> Board!Status \cup {NoStatus}]
      /\ produced \in [Services -> Nat]
  BY MaxEventsAssumption DEF TypeOK, Board!TypeOK
<1>2. \A k \in Services : Board!Known(k) => statuses[k].event.timestamp \in Nat
  BY <1>1 DEF Board!Known, Board!Status, Board!Event
<1>3. ASSUME NEW k \in Services, NEW r \in Reports, ProcessMessage(k, r)
      PROVE  BoardBehind'
  <2> DEFINE e == [service |-> k, timestamp |-> produced[k] + 1, report |-> r]
             new == [event |-> e, historicData |-> Board!Historic(e)]
  <2>1. /\ statuses' = [statuses EXCEPT ![k] = new]
        /\ produced' = [produced EXCEPT ![k] = @ + 1]
    BY <1>3 DEF ProcessMessage, Board!UpdateStatus, Produce
  <2>2. new.event.service = k /\ new.event.timestamp = produced[k] + 1
    OBVIOUS
  <2> HIDE DEF new
  <2>3. ASSUME NEW j \in Services, Board!Known(j)'
        PROVE  /\ statuses'[j].event.service = j
               /\ statuses'[j].event.timestamp <= produced'[j]
    <3>1. CASE j = k
      BY <1>1, <2>1, <2>2, <3>1
    <3>2. CASE j # k
      <4>1. statuses'[j] = statuses[j] /\ produced'[j] = produced[j]
        BY <1>1, <2>1, <3>2
      <4> QED
        BY <2>3, <4>1 DEF BoardBehind, Board!Known
    <3> QED
      BY <3>1, <3>2
  <2> QED
    BY <2>3 DEF BoardBehind
<1>4. ASSUME NEW k \in Services, MissResult(k) PROVE BoardBehind'
  <2>1. /\ statuses' = statuses
        /\ produced' = [produced EXCEPT ![k] = @ + 1]
    BY <1>4 DEF MissResult, Produce, boardVars
  <2>2. \A j \in Services : produced[j] \in Nat /\ produced[j] <= produced'[j]
                            /\ produced'[j] \in Nat
    BY <1>1, <2>1
  <2>3. ASSUME NEW j \in Services, Board!Known(j)'
        PROVE  /\ statuses'[j].event.service = j
               /\ statuses'[j].event.timestamp <= produced'[j]
    <3>1. Board!Known(j) /\ statuses'[j] = statuses[j]
      BY <2>1, <2>3 DEF Board!Known
    <3>2. /\ statuses[j].event.service = j
          /\ statuses[j].event.timestamp <= produced[j]
      BY <3>1 DEF BoardBehind
    <3>3. statuses[j].event.timestamp \in Nat
      BY <1>2, <3>1
    <3> QED
      BY <2>2, <3>1, <3>2, <3>3
  <2> QED
    BY <2>3 DEF BoardBehind
<1>5. CASE Crash
  BY <1>5 DEF Crash, BoardBehind, Board!Known
<1>6. CASE UNCHANGED <<statuses, produced>>
  BY <1>6 DEF BoardBehind, Board!Known
<1> QED
  BY <1>3, <1>4, <1>5, <1>6
  DEF Next, vars, boardVars, Run, Persist, NewConnection, SetPushUUID,
      SetDeviceUUID, ProcessDisconnection, Deliver

(* A socket is given something only after it has connected. *)
LEMMA FreshStep ==
  ASSUME TypeOK, Fresh, [Next]_vars
  PROVE  Fresh'
<1>1. /\ socketState \in [Sockets -> {"new", "open", "closed"}]
      /\ received \in [Sockets -> Seq(Messages)]
  BY DEF TypeOK, Phones!TypeOK
<1>2. ASSUME NEW s \in Sockets, NewConnection(s) PROVE Fresh'
  BY <1>1, <1>2 DEF NewConnection, Phones!NewConnection, Fresh
<1>3. ASSUME NEW s \in Sockets, NEW u \in DeviceIds, SetDeviceUUID(s, u)
      PROVE  Fresh'
  BY <1>1, <1>3 DEF SetDeviceUUID, Phones!SetDeviceUUID, Fresh
<1>4. ASSUME NEW s \in Sockets, ProcessDisconnection(s) PROVE Fresh'
  BY <1>1, <1>4
  DEF ProcessDisconnection, Phones!ProcessDisconnection, Phones!Drop,
      Phones!history, Fresh
<1>5. CASE Crash
  BY <1>1, <1>5
  DEF Crash, Phones!StopListening, Phones!Drop, Phones!history, Fresh
<1>6. ASSUME NEW k \in Services, NEW r \in Reports, ProcessMessage(k, r)
      PROVE  Fresh'
  BY <1>1, <1>6
  DEF ProcessMessage, Phones!SpreadMessage, Phones!Emitted, Fresh
<1>7. ASSUME NEW s \in Sockets, Deliver(s) PROVE Fresh'
  BY <1>1, <1>7 DEF Deliver, Phones!Deliver, Fresh
<1>8. CASE UNCHANGED <<socketState, connections, received, outbox>>
  BY <1>8 DEF Fresh
<1> QED
  BY <1>2, <1>3, <1>4, <1>5, <1>6, <1>7, <1>8
  DEF Next, vars, phonesVars, Run, Phones!StartListening, Persist, MissResult,
      SetPushUUID, Phones!SetPushUUID, Phones!history

(* What each handler does to the streams. *)
LEMMA StreamsOrderedStep ==
  ASSUME TypeOK, StreamInv, [Next]_vars
  PROVE  StreamsOrdered'
<1>0. /\ outbox \in [Sockets -> Seq(Messages)]
      /\ received \in [Sockets -> Seq(Messages)]
      /\ produced \in [Services -> Nat]
  BY MaxEventsAssumption DEF TypeOK, Phones!TypeOK
<1>1. \A s \in Sockets : /\ Stream(s) \in Seq(Messages)
                         /\ Ordered(Stream(s)) /\ Produced(Stream(s), produced)
  BY <1>0, ConcatProperties DEF Stream, StreamInv, StreamsOrdered
<1>2. ASSUME NEW k \in Services, NEW r \in Reports, ProcessMessage(k, r)
      PROVE  StreamsOrdered'
  <2> DEFINE e == [service |-> k, timestamp |-> produced[k] + 1, report |-> r]
  <2>1. /\ received' = received
        /\ outbox' = [s \in Sockets |-> IF s \in connections THEN Append(outbox[s], e)
                                       ELSE outbox[s]]
        /\ produced' = [produced EXCEPT ![k] = @ + 1]
    BY <1>2 DEF ProcessMessage, Phones!SpreadMessage, Phones!Emitted, Produce
  <2>2. /\ e \in Board!Event /\ e \in Messages
        /\ e.service = k /\ e.timestamp = produced[k] + 1
    BY <1>0 DEF Board!Event, Messages
  <2> HIDE DEF e
  <2>3. produced' \in [Services -> Nat]
    BY <1>0, <2>1
  <2>4. ASSUME NEW s \in Sockets
        PROVE  Ordered(Stream(s)') /\ Produced(Stream(s)', produced')
    <3>1. CASE s \in connections
      <4>1. Stream(s)' = received[s] \o Append(outbox[s], e)
        BY <1>0, <2>1, <3>1 DEF Stream
      <4>2. Stream(s)' = Append(Stream(s), e)
        BY <1>0, <2>2, <4>1, ConcatAppend DEF Stream
      <4>3. produced' = [produced EXCEPT ![e.service] = @ + 1]
        BY <2>1, <2>2
      <4>4. e.timestamp = produced[e.service] + 1
        BY <2>2
      <4> DEFINE q == Stream(s)
                 after == produced'
      <4>5. /\ q \in Seq(Messages) /\ Ordered(q) /\ Produced(q, produced)
            /\ after \in [Services -> Nat]
            /\ after = [produced EXCEPT ![e.service] = @ + 1]
        BY <1>1, <2>3, <4>3
      <4> HIDE DEF q, after
      <4>6. Ordered(Append(q, e)) /\ Produced(Append(q, e), after)
        BY <1>0, <2>2, <4>4, <4>5, OrderedAppend
      <4> QED
        BY <4>2, <4>6 DEF q, after
    <3>2. CASE s \notin connections
      <4>1. Stream(s)' = Stream(s)
        BY <2>1, <3>2 DEF Stream
      <4> QED
        BY <1>0, <1>1, <2>1, <4>1, ProducedLater
    <3> QED
      BY <3>1, <3>2
  <2> QED
    BY <2>4 DEF StreamsOrdered
<1>3. ASSUME NEW k \in Services, MissResult(k) PROVE StreamsOrdered'
  <2>1. produced' = [produced EXCEPT ![k] = @ + 1]
    BY <1>3 DEF MissResult, Produce
  <2>2. \A s \in Sockets : Stream(s)' = Stream(s)
    BY <1>3 DEF MissResult, phonesVars, Stream
  <2> QED
    BY <1>0, <1>1, <2>1, <2>2, ProducedLater DEF StreamsOrdered
<1>4. ASSUME NEW s \in Sockets, NewConnection(s) PROVE StreamsOrdered'
  <2>1. PICK q \in Orderings(Board!GetAll) : Phones!NewConnection(s, q)
    BY <1>4 DEF NewConnection
  <2>2. Ordered(q) /\ Produced(q, produced)
    BY SnapshotOrdered DEF TypeOK, Board!TypeOK, StreamInv
  <2>3. q \in Seq(Board!GetAll)
    BY GetAllFinite, OrderingsAreSequences DEF TypeOK, Board!TypeOK
  <2>4. received[s] = <<>> /\ received' = received /\ produced' = produced
        /\ outbox' = [outbox EXCEPT ![s] = q]
    BY <1>4, <2>1 DEF NewConnection, Phones!NewConnection, StreamInv, Fresh
  <2>5. Stream(s)' = q
    BY <1>0, <2>3, <2>4, ConcatEmptySeq DEF Stream
  <2>6. \A c \in Sockets \ {s} : Stream(c)' = Stream(c)
    BY <1>0, <2>4 DEF Stream
  <2> QED
    BY <1>1, <2>2, <2>4, <2>5, <2>6 DEF StreamsOrdered
<1>5. ASSUME NEW S, Phones!Drop(S), UNCHANGED <<received, produced>>
      PROVE  StreamsOrdered'
  <2>1. ASSUME NEW s \in Sockets
        PROVE  Ordered(Stream(s)') /\ Produced(Stream(s)', produced')
    <3>1. CASE s \in S
      <4>1. Stream(s)' = received[s]
        BY <1>0, <1>5, <3>1, ConcatEmptySeq DEF Phones!Drop, Stream
      <4> QED
        BY <1>0, <1>1, <1>5, <4>1, OrderedPrefix DEF Stream
    <3>2. CASE s \notin S
      <4>1. Stream(s)' = Stream(s)
        BY <1>0, <1>5, <3>2 DEF Phones!Drop, Stream
      <4> QED
        BY <1>1, <1>5, <4>1
    <3> QED
      BY <3>1, <3>2
  <2> QED
    BY <2>1 DEF StreamsOrdered
<1>6. ASSUME NEW s \in Sockets, ProcessDisconnection(s) PROVE StreamsOrdered'
  <2>1. Phones!Drop({s}) /\ UNCHANGED <<received, produced>>
    BY <1>6 DEF ProcessDisconnection, Phones!ProcessDisconnection, Phones!history
  <2> QED
    BY <1>5, <2>1
<1>7. CASE Crash
  <2>1. Phones!Drop(Phones!Held) /\ UNCHANGED <<received, produced>>
    BY <1>7 DEF Crash, Phones!StopListening, Phones!history
  <2> QED
    BY <1>5, <2>1
<1>8. ASSUME NEW s \in Sockets, Deliver(s) PROVE StreamsOrdered'
  <2>1. /\ outbox[s] # <<>> /\ produced' = produced
        /\ outbox' = [outbox EXCEPT ![s] = Tail(@)]
        /\ received' = [received EXCEPT ![s] = Append(@, Head(outbox[s]))]
    BY <1>8 DEF Deliver, Phones!Deliver
  <2>2. Stream(s)' = Append(received[s], Head(outbox[s])) \o Tail(outbox[s])
    BY <1>0, <2>1 DEF Stream
  <2>3. Stream(s)' = Stream(s)
    BY <1>0, <2>1, <2>2, MoveHead DEF Stream
  <2>4. \A c \in Sockets \ {s} : Stream(c)' = Stream(c)
    BY <1>0, <2>1 DEF Stream
  <2> QED
    BY <1>1, <2>1, <2>3, <2>4 DEF StreamsOrdered
<1>9. CASE UNCHANGED <<outbox, received, produced>>
  BY <1>1, <1>9 DEF StreamsOrdered, Stream
<1> QED
  BY <1>2, <1>3, <1>4, <1>6, <1>7, <1>8, <1>9
  DEF Next, vars, phonesVars, Run, Phones!StartListening, Persist,
      SetPushUUID, Phones!SetPushUUID, SetDeviceUUID, Phones!SetDeviceUUID,
      Phones!history

(* The inductive invariant of the streams holds in every reachable state. *)
THEOREM StreamInvAlways == Spec => []StreamInv
<1>1. Init => StreamInv
  <2> SUFFICES ASSUME Init PROVE StreamInv
    OBVIOUS
  <2>1. BoardBehind
    BY DEF Init, Board!Init, Board!Empty, BoardBehind, Board!Known
  <2>2. Fresh
    BY DEF Init, Phones!Init, Fresh
  <2>3. \A s \in Sockets : Stream(s) = <<>> /\ DOMAIN Stream(s) = {}
    BY DEF Init, Phones!Init, Stream
  <2>4. StreamsOrdered
    BY <2>3 DEF StreamsOrdered, Ordered, Produced
  <2> QED
    BY <2>1, <2>2, <2>4 DEF StreamInv
<1>2. TypeOK /\ StreamInv /\ [Next]_vars => StreamInv'
  BY BoardBehindStep, FreshStep, StreamsOrderedStep DEF StreamInv
<1> QED
  BY <1>1, <1>2, TypeCorrect, PTL DEF Spec

(* A phone never goes back in time: what it was given and what is on its way
   to it are, of each service, results in the order Nagios produced them. *)
THEOREM StreamAlwaysOrdered == Spec => []StreamOrdered
<1>1. StreamInv => StreamOrdered
  BY DEF StreamInv, StreamsOrdered, Ordered, StreamOrdered
<1> QED
  BY <1>1, StreamInvAlways, PTL

-----------------------------------------------------------------------------
(* The board holds the last result of each log, and a log is of one service. *)
BoardIsLast ==
  \A k \in Services :
    /\ Board!Known(k) <=> log[k] # <<>>
    /\ Board!Known(k) => statuses[k].event = log[k][Len(log[k])]

(* No notification is of a result Nagios has not produced. *)
AlertsProduced ==
  \A n \in DOMAIN alerts :
    alerts[n].event.timestamp <= produced[alerts[n].event.service]

(* The inductive invariant of the notifications. *)
AlertsInv == BoardIsLast /\ AlertsProduced /\ AlertsExact

(* The two sides of AlertsExact. *)
Alerted == {alerts[n].event : n \in DOMAIN alerts}
Starting ==
  UNION {{log[k][i] : i \in {j \in DOMAIN log[k] : StartsProblem(k, j)}}
         : k \in Services}

(* What processMessage() does to the board: its last result is compared and
   replaced. *)
LEMMA BoardIsLastStep ==
  ASSUME TypeOK, BoardIsLast, [Next]_vars
  PROVE  BoardIsLast'
<1>0. /\ statuses \in [Services -> Board!Status \cup {NoStatus}]
      /\ log \in [Services -> Seq(Board!Event)]
      /\ produced \in [Services -> Nat]
  BY MaxEventsAssumption DEF TypeOK, Board!TypeOK
<1>1. ASSUME NEW k \in Services, NEW r \in Reports, ProcessMessage(k, r)
      PROVE  BoardIsLast'
  <2> DEFINE e == [service |-> k, timestamp |-> produced[k] + 1, report |-> r]
             new == [event |-> e, historicData |-> Board!Historic(e)]
  <2>1. /\ statuses' = [statuses EXCEPT ![k] = new]
        /\ log' = [log EXCEPT ![k] = Append(@, e)]
    BY <1>1 DEF ProcessMessage, Board!UpdateStatus
  <2>2. new.event = e /\ e \in Board!Event
    BY <1>0 DEF Board!Event
  <2>3. new # NoStatus
    BY <2>2, StatusMade, NoStatusAssumption DEF TypeOK
  <2>4. statuses'[k] = new /\ log'[k] = Append(log[k], e)
    BY <1>0, <2>1
  <2> HIDE DEF new, e
  <2>5. /\ log'[k] # <<>>
        /\ log'[k][Len(log'[k])] = e
    <3>1. \A q \in Seq(Board!Event) :
            /\ Append(q, e) # <<>>
            /\ Append(q, e)[Len(Append(q, e))] = e
      BY <2>2, AppendProperties
    <3> QED
      BY <1>0, <2>4, <3>1
  <2>6. ASSUME NEW j \in Services
        PROVE  /\ Board!Known(j)' <=> log'[j] # <<>>
               /\ Board!Known(j)' => statuses'[j].event = log'[j][Len(log'[j])]
    <3>1. CASE j = k
      BY <2>2, <2>3, <2>4, <2>5, <3>1 DEF Board!Known
    <3>2. CASE j # k
      <4>1. statuses'[j] = statuses[j] /\ log'[j] = log[j]
        BY <1>0, <2>1, <3>2
      <4> QED
        BY <4>1 DEF BoardIsLast, Board!Known
    <3> QED
      BY <3>1, <3>2
  <2> QED
    BY <2>6 DEF BoardIsLast
<1>2. CASE Crash
  BY <1>2 DEF Crash, BoardIsLast, Board!Known
<1>3. CASE UNCHANGED <<statuses, log>>
  BY <1>3 DEF BoardIsLast, Board!Known
<1> QED
  BY <1>1, <1>2, <1>3
  DEF Next, vars, boardVars, Run, Persist, MissResult, NewConnection,
      SetPushUUID, SetDeviceUUID, ProcessDisconnection, Deliver

(* A result starts an alertable problem exactly if it is pushed: hasChanged()
   compares it with the last one of its log. *)
LEMMA StartingStep ==
  ASSUME TypeOK, BoardIsLast,
         NEW e \in Board!Event, NEW k \in Services, e.service = k,
         log' = [log EXCEPT ![k] = Append(@, e)]
  PROVE  Starting' = IF Board!HasChanged(e) /\ IsMessageSuitedForPush(e)
                     THEN Starting \cup {e} ELSE Starting
<1>. PICK n \in Nat : n = Len(log[k])
  BY DEF TypeOK, Board!TypeOK
<1>0. /\ log \in [Services -> Seq(Board!Event)]
      /\ n \in Nat /\ n = Len(log[k]) /\ DOMAIN log[k] = 1..n
  BY DEF TypeOK, Board!TypeOK
<1>1. log'[k] = Append(log[k], e) /\ \A j \in Services \ {k} : log'[j] = log[j]
  BY <1>0
<1>2. /\ DOMAIN log'[k] = 1..(n + 1)
      /\ \A i \in 1..n : log'[k][i] = log[k][i]
      /\ log'[k][n + 1] = e
  BY <1>0, <1>1
<1>3. ASSUME NEW i \in 1..n PROVE StartsProblem(k, i)' <=> StartsProblem(k, i)
  <2>1. log'[k][i] = log[k][i] /\ (i > 1 => log'[k][i-1] = log[k][i-1])
    BY <1>0, <1>2
  <2> QED
    BY <2>1 DEF StartsProblem, IsMessageSuitedForPush
<1>4. StartsProblem(k, n + 1)'
        <=> Board!HasChanged(e) /\ IsMessageSuitedForPush(e)
  <2>1. (n + 1 > 1) <=> Board!Known(k)
    BY <1>0, EmptySeq DEF BoardIsLast
  <2>2. n + 1 > 1 => log'[k][n] = statuses[k].event
    <3>1. n + 1 > 1 => n \in 1..n /\ statuses[k].event = log[k][n]
      BY <1>0, <2>1 DEF BoardIsLast
    <3> QED
      BY <1>2, <3>1
  <2>3. (n + 1) - 1 = n
    BY <1>0
  <2> QED
    BY <1>2, <2>1, <2>2, <2>3
    DEF StartsProblem, IsMessageSuitedForPush, Board!HasChanged
<1>5. ASSUME NEW j \in Services \ {k}, NEW i \in DOMAIN log[j]
      PROVE  StartsProblem(j, i)' <=> StartsProblem(j, i)
  BY <1>1 DEF StartsProblem, IsMessageSuitedForPush
<1>6. \A x : x \in Starting
              <=> \E j \in Services : \E i \in DOMAIN log[j] :
                    StartsProblem(j, i) /\ x = log[j][i]
  BY DEF Starting
<1>7. \A x : x \in Starting'
              <=> \E j \in Services : \E i \in DOMAIN log'[j] :
                    StartsProblem(j, i)' /\ x = log'[j][i]
  BY DEF Starting
<1>8. ASSUME NEW x
      PROVE  x \in Starting'
               <=> (x \in Starting \/ (x = e /\ StartsProblem(k, n + 1)'))
  <2>1. ASSUME x \in Starting
        PROVE  x \in Starting'
    <3>1. PICK j \in Services : \E i \in DOMAIN log[j] :
            StartsProblem(j, i) /\ x = log[j][i]
      BY <1>6, <2>1
    <3>2. PICK i \in DOMAIN log[j] : StartsProblem(j, i) /\ x = log[j][i]
      BY <3>1
    <3>3. i \in DOMAIN log'[j] /\ StartsProblem(j, i)' /\ x = log'[j][i]
      <4>1. CASE j = k
        BY <1>0, <1>2, <1>3, <3>2, <4>1
      <4>2. CASE j # k
        BY <1>1, <1>5, <3>2, <4>2
      <4> QED
        BY <4>1, <4>2
    <3> QED
      BY <1>7, <3>3
  <2>2. ASSUME x = e, StartsProblem(k, n + 1)'
        PROVE  x \in Starting'
    <3>1. n + 1 \in DOMAIN log'[k] /\ x = log'[k][n + 1]
      BY <1>0, <1>2, <2>2
    <3> QED
      BY <1>7, <2>2, <3>1
  <2>3. ASSUME x \in Starting'
        PROVE  x \in Starting \/ (x = e /\ StartsProblem(k, n + 1)')
    <3>1. PICK j \in Services : \E i \in DOMAIN log'[j] :
            StartsProblem(j, i)' /\ x = log'[j][i]
      BY <1>7, <2>3
    <3>2. PICK i \in DOMAIN log'[j] : StartsProblem(j, i)' /\ x = log'[j][i]
      BY <3>1
    <3>3. CASE j = k /\ i = n + 1
      BY <1>2, <3>2, <3>3
    <3>4. CASE j = k /\ i # n + 1
      <4>1. i \in 1..n
        BY <1>0, <1>2, <3>4
      <4>2. StartsProblem(k, i) /\ x = log[k][i] /\ i \in DOMAIN log[k]
        BY <1>0, <1>2, <1>3, <3>2, <3>4, <4>1
      <4> QED
        BY <1>6, <4>2
    <3>5. CASE j # k
      BY <1>1, <1>5, <1>6, <3>2, <3>5
    <3> QED
      BY <3>3, <3>4, <3>5
  <2> QED
    BY <2>1, <2>2, <2>3
<1> QED
  BY <1>4, <1>8

(* The notifications of one service in the order of its results. *)
AlertsOrdered ==
  \A m, n \in DOMAIN alerts :
    m < n /\ alerts[m].event.service = alerts[n].event.service
      => alerts[m].event.timestamp < alerts[n].event.timestamp

(* The two parts of AlertsExact, by name. *)
LEMMA AlertsExactParts == AlertsExact <=> Alerted = Starting /\ AlertsOrdered
BY DEF AlertsExact, Alerted, Starting, AlertsOrdered

(* The same of the state after a step. *)
LEMMA AlertsExactPrimed == (Alerted = Starting /\ AlertsOrdered)' => AlertsExact'
BY DEF AlertsExact, Alerted, Starting, AlertsOrdered

(* A handler that pushes adds its result to the notifications. *)
LEMMA AlertsStep ==
  ASSUME TypeOK, AlertsInv,
         NEW k \in Services, NEW r \in Reports, ProcessMessage(k, r)
  PROVE  AlertsProduced' /\ AlertsExact'
<1> DEFINE e == [service |-> k, timestamp |-> produced[k] + 1, report |-> r]
           a == [event |-> e, to |-> RegistrationTokens]
           A == [event : Board!Event, to : SUBSET PushIds]
<1>1. /\ alerts \in Seq(A)
      /\ produced \in [Services -> Nat]
      /\ log \in [Services -> Seq(Board!Event)]
  BY MaxEventsAssumption DEF TypeOK, Board!TypeOK
<1>2. /\ e \in Board!Event /\ e.service = k /\ e.timestamp = produced[k] + 1
      /\ a.event = e
  BY <1>1 DEF Board!Event
<1>3. a \in A
  <2>1. RegistrationTokens \subseteq PushIds
    BY DEF TypeOK, Push!TypeOK, Push!Tables, RegistrationTokens
  <2> QED
    BY <1>2, <2>1
<1>4. /\ log' = [log EXCEPT ![k] = Append(@, e)]
      /\ produced' = [produced EXCEPT ![k] = @ + 1]
      /\ alerts' = IF Board!HasChanged(e) /\ IsMessageSuitedForPush(e)
                   THEN Append(alerts, a) ELSE alerts
  BY <1>2 DEF ProcessMessage, Board!UpdateStatus, Produce, DoPush
<1>5. \A x \in A : x.event.service \in Services /\ x.event.timestamp \in Nat
  BY DEF Board!Event
<1> HIDE DEF e, a, A
<1>6. Starting' = IF Board!HasChanged(e) /\ IsMessageSuitedForPush(e)
                  THEN Starting \cup {e} ELSE Starting
  BY <1>2, <1>4, StartingStep DEF AlertsInv
<1>7. Alerted = Starting /\ AlertsOrdered /\ AlertsProduced
  BY AlertsExactParts DEF AlertsInv
<1>8. ASSUME NEW i \in DOMAIN alerts
      PROVE  /\ alerts[i].event.service \in Services
             /\ alerts[i].event.timestamp \in Nat
             /\ alerts[i].event.timestamp <= produced[alerts[i].event.service]
             /\ alerts[i].event.timestamp <= produced'[alerts[i].event.service]
  <2>1. alerts[i] \in A
    BY <1>1
  <2>2. /\ alerts[i].event.service \in Services
        /\ alerts[i].event.timestamp \in Nat
        /\ alerts[i].event.timestamp <= produced[alerts[i].event.service]
    BY <1>5, <1>7, <2>1 DEF AlertsProduced
  <2> QED
    BY <1>1, <1>4, <2>2
<1>9. CASE alerts' = alerts /\ Starting' = Starting
  BY <1>7, <1>8, <1>9, AlertsExactParts
  DEF AlertsProduced, AlertsExact, Alerted, Starting, AlertsOrdered
<1>10. CASE alerts' = Append(alerts, a) /\ Starting' = Starting \cup {e}
  <2>. PICK n \in Nat : n = Len(alerts)
    BY <1>1
  <2>1. /\ DOMAIN alerts = 1..n
        /\ DOMAIN alerts' = 1..(n + 1)
        /\ \A i \in 1..n : alerts'[i] = alerts[i]
        /\ alerts'[n + 1] = a
    BY <1>1, <1>3, <1>10
  <2>2. \A x : x \in Alerted' <=> (x \in Alerted \/ x = e)
    <3>1. \A x : x \in Alerted <=> \E i \in 1..n : x = alerts[i].event
      BY <2>1 DEF Alerted
    <3>2. \A x : x \in Alerted' <=> \E i \in 1..(n + 1) : x = alerts'[i].event
      BY <2>1 DEF Alerted
    <3>3. 1..(n + 1) = (1..n) \cup {n + 1}
      OBVIOUS
    <3> QED
      BY <1>2, <2>1, <3>1, <3>2, <3>3
  <2>3. Alerted' = Starting'
    BY <1>7, <1>10, <2>2
  <2>4. AlertsProduced'
    <3>1. ASSUME NEW i \in 1..(n + 1)
          PROVE  alerts'[i].event.timestamp <= produced'[alerts'[i].event.service]
      <4>1. CASE i \in 1..n
        BY <1>8, <2>1, <4>1
      <4>2. CASE i = n + 1
        BY <1>1, <1>2, <1>4, <2>1, <4>2
      <4> QED
        BY <4>1, <4>2
    <3> QED
      BY <2>1, <3>1 DEF AlertsProduced
  <2>5. AlertsOrdered'
    <3>1. ASSUME NEW i \in 1..(n + 1), NEW j \in 1..(n + 1), i < j,
                 alerts'[i].event.service = alerts'[j].event.service
          PROVE  alerts'[i].event.timestamp < alerts'[j].event.timestamp
      <4>1. i \in 1..n /\ alerts'[i] = alerts[i]
        BY <2>1, <3>1
      <4>2. CASE j \in 1..n
        BY <1>7, <2>1, <3>1, <4>1, <4>2 DEF AlertsOrdered
      <4>3. CASE j = n + 1
        <5>1. alerts'[j].event = e
          BY <1>2, <2>1, <4>3
        <5> QED
          BY <1>1, <1>2, <1>8, <2>1, <3>1, <4>1, <5>1
      <4> QED
        BY <4>2, <4>3
    <3> QED
      BY <2>1, <3>1 DEF AlertsOrdered
  <2> QED
    BY <2>3, <2>4, <2>5, AlertsExactPrimed
<1> QED
  BY <1>4, <1>6, <1>9, <1>10

(* The inductive invariant of the notifications holds in every reachable state. *)
THEOREM AlertsInvAlways == Spec => []AlertsInv
<1>1. Init => AlertsInv
  <2> SUFFICES ASSUME Init PROVE AlertsInv
    OBVIOUS
  <2>1. /\ alerts = <<>> /\ DOMAIN alerts = {}
        /\ \A k \in Services : log[k] = <<>> /\ DOMAIN log[k] = {}
        /\ \A k \in Services : statuses[k] = NoStatus
    BY DEF Init, Board!Init, Board!Empty
  <2>2. BoardIsLast
    BY <2>1 DEF BoardIsLast, Board!Known
  <2>3. Alerted = {} /\ Starting = {}
    BY <2>1 DEF Alerted, Starting
  <2> QED
    BY <2>1, <2>2, <2>3, AlertsExactParts
    DEF AlertsInv, AlertsProduced, AlertsOrdered
<1>2. TypeOK /\ TypeOK' /\ AlertsInv /\ [Next]_vars => AlertsInv'
  <2> SUFFICES ASSUME TypeOK, TypeOK', AlertsInv, [Next]_vars PROVE AlertsInv'
    OBVIOUS
  <2>1. BoardIsLast'
    BY BoardIsLastStep DEF AlertsInv
  <2>2. ASSUME NEW k \in Services, NEW r \in Reports, ProcessMessage(k, r)
        PROVE  AlertsProduced' /\ AlertsExact'
    BY <2>2, AlertsStep
  <2>3. CASE Crash
    <3>1. /\ alerts' = <<>> /\ DOMAIN alerts' = {}
          /\ \A k \in Services : log'[k] = <<>> /\ DOMAIN log'[k] = {}
      BY <2>3 DEF Crash
    <3>2. Alerted' = {} /\ Starting' = {}
      BY <3>1 DEF Alerted, Starting
    <3>3. AlertsProduced' /\ AlertsOrdered'
      BY <3>1 DEF AlertsProduced, AlertsOrdered
    <3>4. Alerted' = Starting'
      BY <3>2
    <3> QED
      BY <2>1, <3>3, <3>4, AlertsExactPrimed DEF AlertsInv
  <2>4. ASSUME UNCHANGED <<alerts, log>> PROVE AlertsExact'
    <3>1. Alerted = Starting /\ AlertsOrdered
      BY AlertsExactParts DEF AlertsInv
    <3>2. Alerted' = Alerted
      BY <2>4 DEF Alerted
    <3>3. \A k \in Services : \A i \in DOMAIN log[k] :
            StartsProblem(k, i)' <=> StartsProblem(k, i)
      BY <2>4 DEF StartsProblem, IsMessageSuitedForPush
    <3>4. Starting' = Starting
      BY <2>4, <3>3 DEF Starting
    <3>5. AlertsOrdered'
      BY <2>4, <3>1 DEF AlertsOrdered
    <3> QED
      BY <3>1, <3>2, <3>4, <3>5, AlertsExactPrimed
  <2>5. ASSUME UNCHANGED <<alerts, produced>> PROVE AlertsProduced'
    BY <2>5 DEF AlertsInv, AlertsProduced
  <2>6. ASSUME NEW k \in Services, MissResult(k) PROVE AlertsProduced'
    <3>1. alerts' = alerts /\ produced' = [produced EXCEPT ![k] = @ + 1]
      BY <2>6 DEF MissResult, Produce, boardVars
    <3>2. produced \in [Services -> Nat]
      BY MaxEventsAssumption DEF TypeOK
    <3> DEFINE A == [event : Board!Event, to : SUBSET PushIds]
    <3>3. alerts \in Seq(A)
      BY DEF TypeOK
    <3>4. \A x \in A : x.event.service \in Services /\ x.event.timestamp \in Nat
      BY DEF Board!Event
    <3> HIDE DEF A
    <3>5. ASSUME NEW i \in DOMAIN alerts
          PROVE  alerts[i].event.timestamp <= produced'[alerts[i].event.service]
      <4>1. alerts[i] \in A
        BY <3>3
      <4>2. /\ alerts[i].event.service \in Services
            /\ alerts[i].event.timestamp \in Nat
            /\ alerts[i].event.timestamp <= produced[alerts[i].event.service]
        BY <3>4, <4>1 DEF AlertsInv, AlertsProduced
      <4> QED
        BY <3>1, <3>2, <4>2
    <3> QED
      BY <3>1, <3>5 DEF AlertsProduced
  <2>7. ASSUME NEW k \in Services, MissResult(k) PROVE UNCHANGED <<alerts, log>>
    BY <2>7 DEF MissResult, boardVars
  <2> QED
    BY <2>1, <2>2, <2>3, <2>4, <2>5, <2>6, <2>7
    DEF AlertsInv, Next, vars, boardVars, Run, Persist, NewConnection,
        SetPushUUID, SetDeviceUUID, ProcessDisconnection, Deliver
<1> QED
  BY <1>1, <1>2, TypeCorrect, PTL DEF Spec

(* The push notifications of a process are exactly the problems that started
   in what it processed, each once and in order, for any services and reports. *)
THEOREM AlertsAlwaysExact == Spec => []AlertsExact
BY AlertsInvAlways, PTL DEF AlertsInv

-----------------------------------------------------------------------------
(* Every open socket is held, so a `deviceuuid' comes from a held one. *)
OpenIsHeld ==
  \A s \in Sockets : socketState[s] = "open" => s \in Phones!Held

(* The inductive invariant of the gap. *)
GapInv == OpenIsHeld /\ BehindOnlyByPendingGap

(* Sockets are opened into a dictionary and closed out of it. *)
LEMMA OpenIsHeldStep ==
  ASSUME TypeOK, OpenIsHeld, [Next]_vars
  PROVE  OpenIsHeld'
<1>0. socketState \in [Sockets -> {"new", "open", "closed"}]
  BY DEF TypeOK, Phones!TypeOK
<1>1. ASSUME NEW s \in Sockets, NewConnection(s) PROVE OpenIsHeld'
  BY <1>0, <1>1 DEF NewConnection, Phones!NewConnection, OpenIsHeld, Phones!Held
<1>2. ASSUME NEW s \in Sockets, NEW u \in DeviceIds, SetDeviceUUID(s, u)
      PROVE  OpenIsHeld'
  BY <1>0, <1>2 DEF SetDeviceUUID, Phones!SetDeviceUUID, OpenIsHeld, Phones!Held
<1>3. ASSUME NEW s \in Sockets, ProcessDisconnection(s) PROVE OpenIsHeld'
  BY <1>0, <1>3
  DEF ProcessDisconnection, Phones!ProcessDisconnection, Phones!Drop,
      Phones!PendingAfter, OpenIsHeld, Phones!Held
<1>4. CASE Crash
  BY <1>0, <1>4
  DEF Crash, Phones!StopListening, Phones!Drop, OpenIsHeld, Phones!Held
<1>5. CASE UNCHANGED <<socketState, connections, pendingConnections>>
  BY <1>5 DEF OpenIsHeld, Phones!Held
<1> QED
  BY <1>1, <1>2, <1>3, <1>4, <1>5
  DEF Next, vars, phonesVars, Run, Phones!StartListening, Persist, MissResult,
      ProcessMessage, Phones!SpreadMessage, SetPushUUID, Phones!SetPushUUID,
      Deliver, Phones!Deliver

(* An ordering of a finite set lists all of it: getAll() leaves no service out. *)
LEMMA OrderingListsAll ==
  ASSUME NEW S, IsFiniteSet(S), NEW q \in Orderings(S), NEW x \in S
  PROVE  \E i \in DOMAIN q : q[i] = x
<1> DEFINE n == Cardinality(S)
<1>1. n \in Nat /\ q \in [1..n -> S] /\ DOMAIN q = 1..n
  BY FS_CardinalityType DEF Orderings
<1>2. IsFiniteSet(1..n) /\ Cardinality(1..n) = n
  BY <1>1, FS_Interval
<1>3. IsFiniteSet(S \ {x}) /\ Cardinality(S \ {x}) = n - 1
  BY FS_RemoveElement
<1>4. SUFFICES ASSUME \A i \in DOMAIN q : q[i] # x PROVE FALSE
  OBVIOUS
<1>5. q \in [1..n -> S \ {x}]
  BY <1>1, <1>4
<1>6. Cardinality(S \ {x}) < Cardinality(1..n)
  BY <1>1, <1>2, <1>3
<1>7. \E i, j \in 1..n : i # j /\ q[i] = q[j]
  <2> DEFINE N == 1..n
             T == S \ {x}
  <2>1. /\ IsFiniteSet(N) /\ IsFiniteSet(T) /\ q \in [N -> T]
        /\ Cardinality(T) < Cardinality(N)
    BY <1>2, <1>3, <1>5, <1>6
  <2> HIDE DEF N, T
  <2>2. \E i, j \in N : i # j /\ q[i] = q[j]
    BY <2>1, FS_PigeonHole
  <2> QED
    BY <2>2 DEF N
<1> QED
  BY <1>1, <1>7 DEF Orderings

(* A longer stream and a longer record of broadcasts keep a phone no further
   behind. *)
LEMMA BehindFrame ==
  ASSUME NEW s, NEW k, Current(s, k) \/ WentOutWhilePending(s, k),
         statuses'[k] = statuses[k], arrivedAt'[s] = arrivedAt[s],
         Stream(s)' = Stream(s), spread' = spread,
         s \in connections' => s \in connections /\ joinedAt'[s] = joinedAt[s]
  PROVE  Current(s, k)' \/ WentOutWhilePending(s, k)'
BY DEF Current, WentOutWhilePending

(* What each handler does to a phone that is behind: it gets there only while pending. *)
LEMMA GapStep ==
  ASSUME TypeOK, StreamInv, GapInv, [Next]_vars
  PROVE  BehindOnlyByPendingGap'
<1>0. /\ statuses \in [Services -> Board!Status \cup {NoStatus}]
      /\ outbox \in [Sockets -> Seq(Messages)]
      /\ received \in [Sockets -> Seq(Messages)]
      /\ produced \in [Services -> Nat]
      /\ spread \in Seq(Messages) /\ Len(spread) \in Nat
      /\ joinedAt \in [Sockets -> Nat]
      /\ arrivedAt \in [Sockets -> 0..Len(spread)]
      /\ connections \subseteq Sockets /\ pendingConnections \subseteq Sockets
  <2>1. spread \in Seq(Messages) /\ Len(spread) \in Nat
    BY LenProperties DEF TypeOK, Phones!TypeOK
  <2>2. produced \in [Services -> Nat]
    BY MaxEventsAssumption DEF TypeOK
  <2> QED
    BY <2>1, <2>2 DEF TypeOK, Phones!TypeOK, Board!TypeOK
<1>1. \A s \in connections \cup pendingConnections, k \in Services :
        Board!Known(k) => Current(s, k) \/ WentOutWhilePending(s, k)
  BY DEF GapInv, BehindOnlyByPendingGap
<1>2. ASSUME NEW n \in Services, NEW r \in Reports, ProcessMessage(n, r)
      PROVE  BehindOnlyByPendingGap'
  <2> DEFINE e == [service |-> n, timestamp |-> produced[n] + 1, report |-> r]
             new == [event |-> e, historicData |-> Board!Historic(e)]
  <2>1. /\ statuses' = [statuses EXCEPT ![n] = new]
        /\ spread' = Append(spread, e)
        /\ outbox' = [s \in Sockets |-> IF s \in connections THEN Append(outbox[s], e)
                                       ELSE outbox[s]]
        /\ UNCHANGED <<received, connections, pendingConnections, joinedAt,
                       arrivedAt>>
    BY <1>2 DEF ProcessMessage, Board!UpdateStatus, Phones!SpreadMessage,
                Phones!Emitted
  <2>2. /\ e \in Board!Event /\ e \in Messages /\ EventOf(e) = e
        /\ new.event = e
    BY <1>0, EventOfMessage DEF Board!Event, Messages
  <2> HIDE DEF e, new
  <2>3. /\ \A i \in 1..Len(spread) : spread'[i] = spread[i]
        /\ spread'[Len(spread) + 1] = e
        /\ Len(spread') = Len(spread) + 1
    BY <1>0, <2>1, <2>2, AppendProperties
  <2>4. statuses'[n].event = e
    BY <1>0, <2>1, <2>2
  <2>5. ASSUME NEW s \in connections, NEW k \in Services
        PROVE  /\ k = n => Current(s, k)'
               /\ k # n /\ Current(s, k) => Current(s, k)'
    <3> DEFINE q == Stream(s)
    <3>1. Stream(s)' = Append(q, e) /\ q \in Seq(Messages)
      <4>1. Stream(s)' = received[s] \o Append(outbox[s], e)
        BY <1>0, <2>1 DEF Stream
      <4> QED
        BY <1>0, <2>2, <4>1, ConcatAppend, ConcatProperties DEF Stream
    <3>2. /\ DOMAIN q = 1..Len(q) /\ Len(q) \in Nat
          /\ DOMAIN Stream(s)' = 1..(Len(q) + 1)
          /\ \A i \in 1..Len(q) : Stream(s)'[i] = q[i]
          /\ Stream(s)'[Len(q) + 1] = e
      BY <2>2, <3>1, AppendProperties, LenProperties
    <3>3. k = n => Current(s, k)'
      <4>1. Len(q) + 1 \in DOMAIN Stream(s)'
        BY <3>2
      <4> QED
        BY <2>2, <2>4, <3>2, <4>1 DEF Current
    <3>4. ASSUME k # n, Current(s, k) PROVE Current(s, k)'
      <4>1. statuses'[k] = statuses[k]
        BY <1>0, <2>1, <3>4
      <4>2. PICK i \in DOMAIN q : EventOf(q[i]) = statuses[k].event
        BY <3>4 DEF Current
      <4>3. i \in DOMAIN Stream(s)' /\ Stream(s)'[i] = q[i]
        BY <3>2
      <4> QED
        BY <4>1, <4>2, <4>3 DEF Current
    <3> QED
      BY <3>3, <3>4
  <2>6. ASSUME NEW s \in Sockets, s \notin connections, NEW k \in Services, k # n,
               Current(s, k)
        PROVE  Current(s, k)'
    <3>1. statuses'[k] = statuses[k]
      BY <1>0, <2>1, <2>6
    <3>2. Stream(s)' = Stream(s)
      BY <2>1, <2>6 DEF Stream
    <3> QED
      BY <2>6, <3>1, <3>2 DEF Current
  <2>7. ASSUME NEW s \in Sockets, s \notin connections
        PROVE  WentOutWhilePending(s, n)'
    <3>1. Len(spread) + 1 \in (arrivedAt'[s] + 1)..Len(spread')
      BY <1>0, <2>1, <2>3
    <3>2. s \notin connections' /\ spread'[Len(spread) + 1] = statuses'[n].event
      BY <2>1, <2>3, <2>4, <2>7
    <3> QED
      BY <3>1, <3>2 DEF WentOutWhilePending
  <2>8. ASSUME NEW s \in Sockets, NEW k \in Services, k # n,
               WentOutWhilePending(s, k)
        PROVE  WentOutWhilePending(s, k)'
    <3>1. PICK i \in (arrivedAt[s] + 1)..Len(spread) :
            /\ s \in connections => i <= joinedAt[s]
            /\ spread[i] = statuses[k].event
      BY <2>8 DEF WentOutWhilePending
    <3>2. statuses'[k] = statuses[k]
      BY <1>0, <2>1, <2>8
    <3>3. i \in 1..Len(spread) /\ i \in (arrivedAt'[s] + 1)..Len(spread')
      BY <1>0, <2>1, <2>3
    <3> QED
      BY <2>1, <2>3, <3>1, <3>2, <3>3 DEF WentOutWhilePending
  <2>9. ASSUME NEW s \in connections' \cup pendingConnections', NEW k \in Services,
               Board!Known(k)'
        PROVE  Current(s, k)' \/ WentOutWhilePending(s, k)'
    <3>1. s \in connections \cup pendingConnections /\ s \in Sockets
      BY <1>0, <2>1
    <3>2. CASE k = n
      BY <2>5, <2>7, <3>1, <3>2
    <3>3. CASE k # n
      <4>1. Board!Known(k)
        BY <1>0, <2>1, <2>9, <3>3 DEF Board!Known
      <4> QED
        BY <1>1, <2>5, <2>6, <2>8, <3>1, <3>3, <4>1
    <3> QED
      BY <3>2, <3>3
  <2> QED
    BY <2>9 DEF BehindOnlyByPendingGap
<1>3. ASSUME NEW s \in Sockets, NewConnection(s) PROVE BehindOnlyByPendingGap'
  <2>1. PICK q \in Orderings(Board!GetAll) : Phones!NewConnection(s, q)
    BY <1>3 DEF NewConnection
  <2>2. /\ received[s] = <<>> /\ s \notin connections
        /\ UNCHANGED <<statuses, received, connections, spread, joinedAt>>
        /\ pendingConnections' = pendingConnections \cup {s}
        /\ outbox' = [outbox EXCEPT ![s] = q]
        /\ arrivedAt' = [arrivedAt EXCEPT ![s] = Len(spread)]
    BY <1>3, <2>1
    DEF NewConnection, Phones!NewConnection, boardVars, StreamInv, Fresh
  <2>3. q \in Seq(Board!GetAll)
    BY <1>0, GetAllFinite, OrderingsAreSequences
  <2>4. Stream(s)' = q
    BY <1>0, <2>2, <2>3, ConcatEmptySeq DEF Stream
  <2>5. ASSUME NEW k \in Services, Board!Known(k) PROVE Current(s, k)'
    <3>1. statuses[k] \in Board!GetAll /\ statuses[k] \in Board!Status
      BY <1>0, <2>5 DEF Board!GetAll, Board!Known
    <3>2. PICK i \in DOMAIN q : q[i] = statuses[k]
      BY <1>0, <3>1, GetAllFinite, OrderingListsAll
    <3>3. EventOf(q[i]) = statuses'[k].event
      BY <2>2, <3>1, <3>2, EventOfMessage
    <3> QED
      BY <2>4, <3>2, <3>3 DEF Current
  <2>6. ASSUME NEW c \in connections \cup pendingConnections, c # s,
               NEW k \in Services, Board!Known(k)
        PROVE  Current(c, k)' \/ WentOutWhilePending(c, k)'
    <3>1. /\ Stream(c)' = Stream(c) /\ arrivedAt'[c] = arrivedAt[c]
          /\ statuses'[k] = statuses[k] /\ joinedAt'[c] = joinedAt[c]
      BY <1>0, <2>2, <2>6 DEF Stream
    <3>2. Current(c, k) \/ WentOutWhilePending(c, k)
      BY <1>1, <2>6
    <3> QED
      BY <2>2, <3>1, <3>2, BehindFrame
  <2> QED
    BY <2>2, <2>5, <2>6 DEF BehindOnlyByPendingGap, Board!Known
<1>4. ASSUME NEW s \in Sockets, NEW u \in DeviceIds, SetDeviceUUID(s, u)
      PROVE  BehindOnlyByPendingGap'
  <2>1. /\ socketState[s] = "open"
        /\ UNCHANGED <<statuses, outbox, received, spread, arrivedAt>>
        /\ connections' = connections \cup {s}
        /\ pendingConnections' = pendingConnections \ {s}
        /\ joinedAt' = IF s \in connections THEN joinedAt
                       ELSE [joinedAt EXCEPT ![s] = Len(spread)]
    BY <1>4 DEF SetDeviceUUID, Phones!SetDeviceUUID, boardVars
  <2>2. s \in connections \cup pendingConnections
    BY <2>1 DEF GapInv, OpenIsHeld, Phones!Held
  <2>3. ASSUME NEW c \in connections \cup pendingConnections,
               NEW k \in Services, Board!Known(k)
        PROVE  Current(c, k)' \/ WentOutWhilePending(c, k)'
    <3>1. Stream(c)' = Stream(c)
      BY <2>1 DEF Stream
    <3>2. Current(c, k) \/ WentOutWhilePending(c, k)
      BY <1>1, <2>3
    <3>3. CASE c # s \/ s \in connections
      <4>1. c \in connections' => c \in connections /\ joinedAt'[c] = joinedAt[c]
        BY <1>0, <2>1, <3>3
      <4> QED
        BY <2>1, <3>1, <3>2, <4>1, BehindFrame
    <3>4. CASE c = s /\ s \notin connections
      <4>1. joinedAt'[s] = Len(spread)
        BY <1>0, <2>1, <2>2, <3>4
      <4>2. ASSUME WentOutWhilePending(s, k) PROVE WentOutWhilePending(s, k)'
        <5>1. PICK i \in (arrivedAt[s] + 1)..Len(spread) :
                spread[i] = statuses[k].event
          BY <4>2 DEF WentOutWhilePending
        <5>2. i <= joinedAt'[s]
          BY <4>1, <1>0
        <5> QED
          BY <2>1, <5>1, <5>2 DEF WentOutWhilePending
      <4>3. Current(s, k) => Current(s, k)'
        BY <2>1, <3>1, <3>4 DEF Current
      <4> QED
        BY <3>2, <3>4, <4>2, <4>3
    <3> QED
      BY <3>3, <3>4
  <2> QED
    BY <2>1, <2>2, <2>3 DEF BehindOnlyByPendingGap, Board!Known
<1>5. ASSUME NEW s \in Sockets, ProcessDisconnection(s)
      PROVE  BehindOnlyByPendingGap'
  <2>1. /\ UNCHANGED <<statuses, received, spread, arrivedAt, joinedAt>>
        /\ connections' = connections \ {s}
        /\ pendingConnections' = pendingConnections \ {s}
        /\ Phones!Drop({s})
    BY <1>5
    DEF ProcessDisconnection, Phones!ProcessDisconnection, Phones!PendingAfter,
        Phones!history, boardVars
  <2>2. ASSUME NEW c \in connections' \cup pendingConnections',
               NEW k \in Services, Board!Known(k)
        PROVE  Current(c, k)' \/ WentOutWhilePending(c, k)'
    <3>1. Stream(c)' = Stream(c)
      BY <1>0, <2>1 DEF Phones!Drop, Stream
    <3>2. Current(c, k) \/ WentOutWhilePending(c, k)
      BY <1>1, <2>1, <2>2
    <3> QED
      BY <2>1, <3>1, <3>2, BehindFrame
  <2> QED
    BY <2>1, <2>2 DEF BehindOnlyByPendingGap, Board!Known
<1>6. CASE Crash
  BY <1>6 DEF Crash, Phones!StopListening, BehindOnlyByPendingGap
<1>7. ASSUME NEW s \in Sockets, Deliver(s) PROVE BehindOnlyByPendingGap'
  <2>1. /\ outbox[s] # <<>>
        /\ outbox' = [outbox EXCEPT ![s] = Tail(@)]
        /\ received' = [received EXCEPT ![s] = Append(@, Head(outbox[s]))]
        /\ UNCHANGED <<statuses, spread, arrivedAt, joinedAt, connections,
                       pendingConnections>>
    BY <1>7 DEF Deliver, Phones!Deliver, boardVars
  <2>2. Stream(s)' = Append(received[s], Head(outbox[s])) \o Tail(outbox[s])
    BY <1>0, <2>1 DEF Stream
  <2>3. Stream(s)' = Stream(s)
    BY <1>0, <2>1, <2>2, MoveHead DEF Stream
  <2>4. \A c \in Sockets : Stream(c)' = Stream(c)
    BY <1>0, <2>1, <2>3 DEF Stream
  <2> QED
    BY <1>0, <1>1, <2>1, <2>4, BehindFrame
    DEF BehindOnlyByPendingGap, Board!Known
<1>8. CASE UNCHANGED <<statuses, outbox, received, spread, arrivedAt, joinedAt,
                       connections, pendingConnections>>
  <2>1. \A c \in Sockets : Stream(c)' = Stream(c)
    BY <1>8 DEF Stream
  <2> QED
    BY <1>0, <1>1, <1>8, <2>1, BehindFrame
    DEF BehindOnlyByPendingGap, Board!Known
<1> QED
  BY <1>2, <1>3, <1>4, <1>5, <1>6, <1>7, <1>8
  DEF Next, vars, boardVars, phonesVars, Run, Phones!StartListening, Persist,
      MissResult, SetPushUUID, Phones!SetPushUUID, Phones!history

(* The inductive invariant of the gap holds in every reachable state. *)
THEOREM GapInvAlways == Spec => []GapInv
<1>1. Init => GapInv
  BY DEF Init, Phones!Init, GapInv, OpenIsHeld, BehindOnlyByPendingGap
<1>2. TypeOK /\ StreamInv /\ GapInv /\ [Next]_vars => GapInv'
  BY OpenIsHeldStep, GapStep DEF GapInv
<1> QED
  BY <1>1, <1>2, TypeCorrect, StreamInvAlways, PTL DEF Spec

(* A connected phone is behind the board on a service only by what went out
   between its arrival and its uuid, for any number of phones and services. *)
THEOREM AlwaysBehindOnlyByPendingGap == Spec => []BehindOnlyByPendingGap
BY GapInvAlways, PTL DEF GapInv

-----------------------------------------------------------------------------
(* The handlers of Middleware use the push table as its specification says, so
   what is proved of PushManager holds of it in the process. *)
THEOREM PushTableInProcess == Spec => Push!Spec
<1>1. Init => Push!Init
  BY DEF Init
<1>2. TypeOK /\ [Next]_vars => [Push!Next]_(Push!vars)
  <2> SUFFICES ASSUME TypeOK, [Next]_vars PROVE [Push!Next]_(Push!vars)
    OBVIOUS
  <2>1. ASSUME NEW s \in Sockets, NEW u \in DeviceIds, SetDeviceUUID(s, u)
        PROVE  Push!Next
    <3>1. pushRegistrationId[s] \in PushIds \cup {Null}
      BY DEF TypeOK, Phones!TypeOK
    <3> QED
      BY <2>1, <3>1 DEF SetDeviceUUID, Push!Next
  <2>2. CASE Run \/ Crash \/ Persist
    BY <2>2 DEF Run, Crash, Persist, Push!Next
  <2>3. CASE UNCHANGED pushVars
    BY <2>3 DEF pushVars, Push!vars
  <2> QED
    BY <2>1, <2>2, <2>3
    DEF Next, vars, MissResult, ProcessMessage, NewConnection, SetPushUUID,
        ProcessDisconnection, Deliver
<1> QED
  BY <1>1, <1>2, TypeCorrect, PTL DEF Spec, Push!Spec

(* They use the connections as their specification says too, but for its
   fairness: messages are results, snapshots are lists of the board's entries. *)
THEOREM PhonesInProcess == Spec => Phones!Init /\ [][Phones!Next]_(Phones!vars)
<1>1. Init => Phones!Init
  BY DEF Init
<1>2. TypeOK /\ [Next]_vars => [Phones!Next]_(Phones!vars)
  <2> SUFFICES ASSUME TypeOK, [Next]_vars PROVE [Phones!Next]_(Phones!vars)
    OBVIOUS
  <2>1. ASSUME NEW k \in Services, NEW r \in Reports, ProcessMessage(k, r)
        PROVE  Phones!Next
    <3>1. [service |-> k, timestamp |-> produced[k] + 1, report |-> r] \in Messages
      BY MaxEventsAssumption DEF TypeOK, Messages, Board!Event
    <3> QED
      BY <2>1, <3>1 DEF ProcessMessage, Phones!Next
  <2>2. ASSUME NEW s \in Sockets, NewConnection(s) PROVE Phones!Next
    <3>1. PICK q \in Orderings(Board!GetAll) : Phones!NewConnection(s, q)
      BY <2>2 DEF NewConnection
    <3>2. q \in Seq(Board!GetAll) /\ Board!GetAll \subseteq Board!Status
      BY GetAllFinite, OrderingsAreSequences DEF TypeOK, Board!TypeOK
    <3>3. q \in Seq(Board!Status)
      BY <3>2
    <3> QED
      BY <3>1, <3>3 DEF Phones!Next
  <2>3. ASSUME NEW s \in Sockets,
               \/ \E p \in PushIds : SetPushUUID(s, p)
               \/ \E u \in DeviceIds : SetDeviceUUID(s, u)
               \/ ProcessDisconnection(s)
               \/ Deliver(s)
        PROVE  Phones!Next
    BY <2>3
    DEF SetPushUUID, SetDeviceUUID, ProcessDisconnection, Deliver, Phones!Next
  <2>4. CASE Run \/ Crash
    BY <2>4 DEF Run, Crash, Phones!Next
  <2>5. CASE UNCHANGED phonesVars
    BY <2>5 DEF phonesVars, Phones!vars, Phones!ids, Phones!history
  <2> QED
    BY <2>1, <2>2, <2>3, <2>4, <2>5 DEF Next, vars, Persist, MissResult
<1> QED
  BY <1>1, <1>2, TypeCorrect, PTL DEF Spec
=============================================================================

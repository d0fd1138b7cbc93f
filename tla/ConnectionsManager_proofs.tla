----------------------- MODULE ConnectionsManager_proofs -----------------------
(***************************************************************************)
(* Proofs about the connections of phones, for every set of sockets, ids,  *)
(* messages and snapshots: types, the accounting of sockets, and that what *)
(* a phone has and what is on its way to it is its stream.                 *)
(***************************************************************************)
EXTENDS ConnectionsManager, SequenceLemmas

(* The types of the fields are kept by every handler. *)
THEOREM TypeCorrect == Spec => []TypeOK
<1>1. Init => TypeOK
  <2> SUFFICES ASSUME Init PROVE TypeOK
    OBVIOUS
  <2>1. <<>> \in Seq(Messages)
    BY EmptySeq
  <2>2. /\ outbox \in [Sockets -> Seq(Messages)]
        /\ snapshot \in [Sockets -> Seq(Messages)]
        /\ received \in [Sockets -> Seq(Messages)]
    BY <2>1 DEF Init
  <2>3. joinedAt \in [Sockets -> Nat]
    BY DEF Init
  <2> QED
    BY <2>1, <2>2, <2>3 DEF Init, TypeOK
<1>2. TypeOK /\ [Next]_vars => TypeOK'
  <2> SUFFICES ASSUME TypeOK, [Next]_vars PROVE TypeOK'
    OBVIOUS
  <2>1. CASE StartListening
    BY <2>1 DEF StartListening, TypeOK, ids, history
  <2>2. CASE StopListening
    BY <2>2, EmptySeq DEF StopListening, Drop, TypeOK, ids, history
  <2>3. ASSUME NEW m \in Messages, SpreadMessage(m) PROVE TypeOK'
    <3>1. \A s \in Sockets : Append(outbox[s], m) \in Seq(Messages)
      BY AppendProperties DEF TypeOK
    <3>2. Append(spread, m) \in Seq(Messages)
      BY AppendProperties DEF TypeOK
    <3> QED
      BY <2>3, <3>1, <3>2 DEF SpreadMessage, Emitted, TypeOK, ids
  <2>4. ASSUME NEW s \in Sockets, NEW q \in Snapshots, NewConnection(s, q)
        PROVE  TypeOK'
    BY <2>4, MessagesAssumption DEF NewConnection, TypeOK, ids
  <2>5. ASSUME NEW s \in Sockets, NEW p \in PushIds, SetPushUUID(s, p)
        PROVE  TypeOK'
    BY <2>5 DEF SetPushUUID, TypeOK, history
  <2>6. ASSUME NEW s \in Sockets, NEW u \in DeviceIds, SetDeviceUUID(s, u)
        PROVE  TypeOK'
    <3>1. Len(spread) \in Nat
      BY LenProperties DEF TypeOK
    <3> QED
      BY <2>6, <3>1 DEF SetDeviceUUID, TypeOK
  <2>7. ASSUME NEW s \in Sockets, ProcessDisconnection(s) PROVE TypeOK'
    BY <2>7, EmptySeq DEF ProcessDisconnection, PendingAfter, Drop, TypeOK, ids, history
  <2>8. ASSUME NEW s \in Sockets, Deliver(s) PROVE TypeOK'
    <3>1. Head(outbox[s]) \in Messages /\ Tail(outbox[s]) \in Seq(Messages)
      BY <2>8, HeadTailProperties DEF Deliver, TypeOK
    <3>2. Append(received[s], Head(outbox[s])) \in Seq(Messages)
      BY <3>1, AppendProperties DEF TypeOK
    <3> QED
      BY <2>8, <3>1, <3>2 DEF Deliver, TypeOK, ids
  <2>9. CASE UNCHANGED vars
    BY <2>9 DEF vars, TypeOK, ids, history
  <2> QED
    BY <2>1, <2>2, <2>3, <2>4, <2>5, <2>6, <2>7, <2>8, <2>9 DEF Next
<1> QED
  BY <1>1, <1>2, PTL DEF Spec

-----------------------------------------------------------------------------
(* A socket that has not connected has announced nothing: with this the
   accounting of sockets is inductive. *)
NewUnannounced ==
  \A s \in Sockets : socketState[s] = "new" => deviceUUID[s] = Null

Accounted == TypeOK /\ SocketsAccounted /\ NewUnannounced

(* Every step keeps the accounting. *)
LEMMA AccountedStep ==
  ASSUME Accounted, TypeOK', [Next]_vars
  PROVE  Accounted'
<1> USE DEF Accounted
<1>1. CASE StartListening
  BY <1>1 DEF StartListening, SocketsAccounted, NewUnannounced, Held, ids
<1>2. CASE StopListening
  BY <1>2 DEF StopListening, Drop, SocketsAccounted, NewUnannounced, Held, ids,
              TypeOK
<1>3. ASSUME NEW m \in Messages, SpreadMessage(m) PROVE Accounted'
  BY <1>3 DEF SpreadMessage, Emitted, SocketsAccounted, NewUnannounced, Held, ids
<1>4. ASSUME NEW s \in Sockets, NEW q \in Snapshots, NewConnection(s, q)
      PROVE  Accounted'
  BY <1>4 DEF NewConnection, SocketsAccounted, NewUnannounced, Held, ids, TypeOK
<1>5. ASSUME NEW s \in Sockets, NEW p \in PushIds, SetPushUUID(s, p)
      PROVE  Accounted'
  BY <1>5 DEF SetPushUUID, SocketsAccounted, NewUnannounced, Held
<1>6. ASSUME NEW s \in Sockets, NEW u \in DeviceIds, SetDeviceUUID(s, u)
      PROVE  Accounted'
  BY <1>6, IdsAssumption
     DEF SetDeviceUUID, SocketsAccounted, NewUnannounced, Held, TypeOK
<1>7. ASSUME NEW s \in Sockets, ProcessDisconnection(s) PROVE Accounted'
  BY <1>7 DEF ProcessDisconnection, PendingAfter, Drop, SocketsAccounted, NewUnannounced, Held,
              ids, TypeOK
<1>8. ASSUME NEW s \in Sockets, Deliver(s) PROVE Accounted'
  BY <1>8 DEF Deliver, SocketsAccounted, NewUnannounced, Held, ids
<1>9. CASE UNCHANGED vars
  BY <1>9 DEF vars, SocketsAccounted, NewUnannounced, Held, ids
<1> QED
  BY <1>1, <1>2, <1>3, <1>4, <1>5, <1>6, <1>7, <1>8, <1>9 DEF Next

(* The accounting of the dictionaries holds in every reachable state. *)
THEOREM AccountedAlways == Spec => []Accounted
<1>1. Init => SocketsAccounted /\ NewUnannounced
  BY DEF Init, SocketsAccounted, NewUnannounced, Held
<1>2. TypeOK /\ TypeOK' /\ SocketsAccounted /\ NewUnannounced /\ [Next]_vars
        => SocketsAccounted' /\ NewUnannounced'
  BY AccountedStep DEF Accounted
<1> QED
  BY <1>1, <1>2, TypeCorrect, PTL DEF Spec, Accounted

(* The dictionaries hold exactly the open sockets, each in the one its
   announcement calls for, for any number of phones. *)
THEOREM SocketsAlwaysAccounted == Spec => []SocketsAccounted
BY AccountedAlways, PTL DEF Accounted

-----------------------------------------------------------------------------
(* Facts about sequences.                                                  *)

(* The element of a concatenation after the first part. *)
LEMMA NextOfConcat ==
  ASSUME NEW S, NEW s \in Seq(S), NEW t \in Seq(S), t # <<>>
  PROVE  /\ Len(s) < Len(s \o t)
         /\ (s \o t)[Len(s) + 1] = Head(t)
<1>1. Len(s) \in Nat /\ Len(t) \in Nat /\ Len(t) > 0
  BY EmptySeq, LenProperties
<1>2. Len(s) + 1 \in 1..(Len(s) + Len(t))
  BY <1>1
<1>3. /\ Len(s \o t) = Len(s) + Len(t)
      /\ (s \o t)[Len(s) + 1] = t[Len(s) + 1 - Len(s)]
  BY <1>1, <1>2, ConcatProperties
<1>4. Head(t) = t[1]
  OBVIOUS
<1> QED
  BY <1>1, <1>3, <1>4

(* What was spread after the first n messages, when one more is spread. *)
LEMMA SuffixOfAppend ==
  ASSUME NEW S, NEW s \in Seq(S), NEW e \in S, NEW n \in 0..Len(s)
  PROVE  SubSeq(Append(s, e), n + 1, Len(Append(s, e)))
           = Append(SubSeq(s, n + 1, Len(s)), e)
<1> DEFINE a == Append(s, e)
           l == SubSeq(a, n + 1, Len(s) + 1)
           r == SubSeq(s, n + 1, Len(s))
<1>1. Len(s) \in Nat /\ n \in Nat /\ n <= Len(s)
  BY LenProperties
<1>2. /\ a \in Seq(S) /\ Len(a) = Len(s) + 1
      /\ \A i \in 1..Len(s) : a[i] = s[i]
      /\ a[Len(s) + 1] = e
  BY AppendProperties
<1> HIDE DEF a
<1>3. \A i \in (n + 1)..(Len(s) + 1) : a[i] \in S
  BY <1>1, <1>2, ElementOfSeq
<1>4. /\ l \in Seq(S) /\ Len(l) = Len(s) - n + 1
      /\ \A i \in 1..(Len(s) - n + 1) : l[i] = a[n + i]
  <2>1. /\ l \in Seq(S)
        /\ Len(l) = IF n + 1 <= Len(s) + 1 THEN Len(s) + 1 - (n + 1) + 1 ELSE 0
        /\ \A i \in 1..(Len(s) + 1 - (n + 1) + 1) : l[i] = a[n + 1 + i - 1]
    BY <1>1, <1>3, SubSeqProperties
  <2> QED
    BY <1>1, <2>1
<1>5. \A i \in (n + 1)..Len(s) : s[i] \in S
  BY <1>1, ElementOfSeq
<1>6. /\ r \in Seq(S) /\ Len(r) = Len(s) - n
      /\ \A i \in 1..(Len(s) - n) : r[i] = s[n + i]
  <2>1. /\ r \in Seq(S)
        /\ Len(r) = IF n + 1 <= Len(s) THEN Len(s) - (n + 1) + 1 ELSE 0
        /\ \A i \in 1..(Len(s) - (n + 1) + 1) : r[i] = s[n + 1 + i - 1]
    BY <1>1, <1>5, SubSeqProperties
  <2> QED
    BY <1>1, <2>1
<1> HIDE DEF l, r
<1>7. /\ Append(r, e) \in Seq(S) /\ Len(Append(r, e)) = Len(s) - n + 1
      /\ \A i \in 1..(Len(s) - n) : Append(r, e)[i] = r[i]
      /\ Append(r, e)[Len(s) - n + 1] = e
  BY <1>1, <1>6, AppendProperties
<1>8. ASSUME NEW i \in 1..(Len(s) - n + 1) PROVE l[i] = Append(r, e)[i]
  <2>1. CASE i = Len(s) - n + 1
    <3>1. n + i = Len(s) + 1
      BY <1>1, <2>1
    <3> QED
      BY <1>2, <1>4, <1>7, <2>1, <3>1
  <2>2. CASE i # Len(s) - n + 1
    <3>1. i \in 1..(Len(s) - n) /\ n + i \in 1..Len(s)
      BY <1>1, <2>2
    <3> QED
      BY <1>2, <1>4, <1>6, <1>7, <3>1
  <2> QED
    BY <2>1, <2>2
<1>9. l = Append(r, e)
  BY <1>4, <1>7, <1>8, SeqEqual
<1> QED
  BY <1>2, <1>9 DEF a, l, r

-----------------------------------------------------------------------------
(* The stream of a socket in terms of the manager's own state. *)
Owed(s) ==
  IF s \in connections
  THEN snapshot[s] \o SubSeq(spread, joinedAt[s] + 1, Len(spread))
  ELSE snapshot[s]

(* What a socket has is the beginning of what FeedExact owes it. *)
LEMMA StreamIsOwed ==
  ASSUME Accounted, NEW s \in Sockets
  PROVE  Feed!Stream(s) = Owed(s)
<1>1. [r \in Sockets |-> Phase(r)][s] = Phase(s)
  OBVIOUS
<1>2. Phase(s) = "ready" <=> s \in connections
  <2>1. CASE s \in connections
    BY <2>1 DEF Phase, Accounted, SocketsAccounted, Held
  <2>2. CASE s \notin connections /\ s \in pendingConnections
    BY <2>2 DEF Phase
  <2>3. CASE s \notin connections /\ s \notin pendingConnections
    <3>1. CASE socketState[s] = "new"
      BY <2>3, <3>1 DEF Phase
    <3>2. CASE socketState[s] # "new"
      BY <2>3, <3>2 DEF Phase
    <3> QED
      BY <3>1, <3>2
  <2> QED
    BY <2>1, <2>2, <2>3
<1> QED
  BY <1>1, <1>2 DEF Feed!Stream, Owed

(* FeedExact for one socket, with the bound on joinedAt for every socket, not
   only those held: a socket that connects takes its joinedAt with it. *)
Exact(s) ==
  /\ joinedAt[s] <= Len(spread)
  /\ s \in Held => received[s] \o outbox[s] = Owed(s)
  /\ s \notin Held =>
       /\ outbox[s] = <<>>
       /\ socketState[s] = "new" => received[s] = <<>> /\ snapshot[s] = <<>>

FeedInv == Accounted /\ \A s \in Sockets : Exact(s)

(* The inductive invariant is at least as strong as FeedExact. *)
LEMMA FeedInvGivesExact == FeedInv => FeedExact
BY StreamIsOwed DEF FeedInv, Exact, FeedExact

(* A handler that leaves what a socket has, is owed and is sent alone. *)
LEMMA ExactFrame ==
  ASSUME Accounted, NEW s \in Sockets, Exact(s),
         UNCHANGED <<spread, outbox[s], snapshot[s], joinedAt[s], received[s]>>,
         socketState'[s] = "new" => socketState[s] = "new",
         s \in connections' <=> s \in connections,
         s \in Held' <=> s \in Held
  PROVE  Exact(s)'
BY DEF Exact, Owed

(* Every handler keeps what each socket has and is sent equal to what it is
   owed. *)
LEMMA ExactStep ==
  ASSUME FeedInv, Accounted', [Next]_vars, NEW z \in Sockets
  PROVE  Exact(z)'
<1> USE DEF FeedInv
<1>0. /\ Exact(z)
      /\ outbox[z] \in Seq(Messages) /\ received[z] \in Seq(Messages)
      /\ snapshot[z] \in Seq(Messages) /\ spread \in Seq(Messages)
      /\ joinedAt[z] \in Nat /\ Len(spread) \in Nat
  BY LenProperties DEF Accounted, TypeOK
<1>1. CASE StartListening
  BY <1>0, <1>1, ExactFrame DEF StartListening, Held, history
<1>2. CASE StopListening
  BY <1>0, <1>2 DEF StopListening, Drop, Exact, Held, history, Accounted, TypeOK,
                    SocketsAccounted
<1>3. ASSUME NEW m \in Messages, SpreadMessage(m) PROVE Exact(z)'
  <2>0. \A a, b \in Seq(Messages) : a \o Append(b, m) = Append(a \o b, m)
    BY ConcatAppend
  <2>1. Append(spread, m) \in Seq(Messages)
        /\ Len(Append(spread, m)) = Len(spread) + 1
    BY <1>0, AppendProperties
  <2>2. CASE z \in connections
    <3> DEFINE rest == SubSeq(spread, joinedAt[z] + 1, Len(spread))
    <3>1. joinedAt[z] \in 0..Len(spread)
      BY <1>0 DEF Exact
    <3>2. rest \in Seq(Messages)
      <4>1. \A i \in (joinedAt[z] + 1)..Len(spread) : spread[i] \in Messages
        BY <1>0, ElementOfSeq
      <4> QED
        BY <1>0, <4>1, SubSeqProperties
    <3>3. SubSeq(spread, joinedAt[z] + 1, Len(spread))' = Append(rest, m)
      BY <1>0, <1>3, <3>1, SuffixOfAppend DEF SpreadMessage, Emitted
    <3>4. outbox'[z] = Append(outbox[z], m)
      BY <1>3, <2>2 DEF SpreadMessage, Emitted
    <3>5. received[z] \o outbox[z] = snapshot[z] \o rest
      BY <1>0, <2>2 DEF Exact, Owed, Held
    <3> HIDE DEF rest
    <3>6. received[z] \o Append(outbox[z], m) = Append(received[z] \o outbox[z], m)
      BY <1>0, <2>0
    <3>7. snapshot[z] \o Append(rest, m) = Append(snapshot[z] \o rest, m)
      BY <1>0, <2>0, <3>2
    <3>8. received'[z] \o outbox'[z] = Owed(z)'
      BY <1>3, <2>2, <3>3, <3>4, <3>5, <3>6, <3>7 DEF SpreadMessage, Emitted, Owed
    <3>9. joinedAt'[z] <= Len(spread')
      BY <1>0, <1>3, <2>1, <3>1 DEF SpreadMessage, Emitted
    <3> QED
      BY <1>3, <2>2, <3>8, <3>9 DEF SpreadMessage, Emitted, Exact, Held
  <2>3. CASE z \notin connections
    <3>1. outbox'[z] = outbox[z]
      BY <1>3, <2>3 DEF SpreadMessage, Emitted, Accounted, TypeOK
    <3>2. joinedAt'[z] <= Len(spread')
      BY <1>0, <1>3, <2>1 DEF SpreadMessage, Emitted, Exact
    <3> QED
      BY <1>0, <1>3, <2>3, <3>1, <3>2 DEF SpreadMessage, Emitted, Exact, Owed, Held
  <2> QED
    BY <2>2, <2>3
<1>4. ASSUME NEW s \in Sockets, NEW q \in Snapshots, NewConnection(s, q)
      PROVE  Exact(z)'
  <2>1. CASE z = s
    <3>1. z \notin Held /\ received[z] = <<>>
      BY <1>0, <1>4, <2>1 DEF NewConnection, Accounted, SocketsAccounted, Exact
    <3>2. outbox'[z] = q /\ snapshot'[z] = q /\ received'[z] = <<>>
      BY <1>4, <2>1, <3>1 DEF NewConnection, Accounted, TypeOK
    <3>3. <<>> \o q = q
      BY MessagesAssumption, ConcatEmptySeq
    <3>4. z \notin connections' /\ z \in Held'
      BY <1>4, <2>1, <3>1 DEF NewConnection, Held
    <3> QED
      BY <1>0, <1>4, <3>2, <3>3, <3>4 DEF NewConnection, Exact, Owed
  <2>2. CASE z # s
    BY <1>0, <1>4, <2>2, ExactFrame
       DEF NewConnection, Held, Accounted, TypeOK
  <2> QED
    BY <2>1, <2>2
<1>5. ASSUME NEW s \in Sockets, NEW p \in PushIds, SetPushUUID(s, p)
      PROVE  Exact(z)'
  BY <1>0, <1>5, ExactFrame DEF SetPushUUID, Held, history
<1>6. ASSUME NEW s \in Sockets, NEW u \in DeviceIds, SetDeviceUUID(s, u)
      PROVE  Exact(z)'
  <2>1. CASE z = s /\ s \notin connections
    <3>1. joinedAt'[z] = Len(spread) /\ z \in connections' /\ z \in Held
      BY <1>6, <2>1 DEF SetDeviceUUID, Accounted, TypeOK, SocketsAccounted
    <3>2. SubSeq(spread, Len(spread) + 1, Len(spread)) = <<>>
      BY <1>0, SubSeqEmpty
    <3>3. snapshot[z] \o <<>> = snapshot[z]
      BY <1>0, ConcatEmptySeq
    <3>4. received[z] \o outbox[z] = snapshot[z]
      BY <1>0, <2>1, <3>1 DEF Exact, Owed
    <3>5. received'[z] \o outbox'[z] = Owed(z)'
      BY <1>6, <3>1, <3>2, <3>3, <3>4 DEF SetDeviceUUID, Owed
    <3> QED
      BY <1>0, <1>6, <3>1, <3>5 DEF SetDeviceUUID, Exact, Held
  <2>2. CASE z # s \/ s \in connections
    BY <1>0, <1>6, <2>2, ExactFrame
       DEF SetDeviceUUID, Held, Accounted, TypeOK
  <2> QED
    BY <2>1, <2>2
<1>7. ASSUME NEW s \in Sockets, ProcessDisconnection(s) PROVE Exact(z)'
  <2>1. CASE z = s
    BY <1>0, <1>7, <2>1
       DEF ProcessDisconnection, PendingAfter, Drop, Exact, Held, history, Accounted, TypeOK
  <2>2. CASE z # s
    BY <1>0, <1>7, <2>2, ExactFrame
       DEF ProcessDisconnection, PendingAfter, Drop, Held, history, Accounted, TypeOK
  <2> QED
    BY <2>1, <2>2
<1>8. ASSUME NEW s \in Sockets, Deliver(s) PROVE Exact(z)'
  <2>1. CASE z = s
    <3>1. outbox[z] # <<>> /\ z \in Held
      BY <1>0, <1>8, <2>1 DEF Deliver, Exact
    <3>2. received'[z] \o outbox'[z] = received[z] \o outbox[z]
      BY <1>0, <1>8, <2>1, <3>1, MoveHead DEF Deliver, Accounted, TypeOK
    <3> QED
      BY <1>0, <1>8, <3>1, <3>2 DEF Deliver, Exact, Owed, Held
  <2>2. CASE z # s
    BY <1>0, <1>8, <2>2, ExactFrame DEF Deliver, Held, Accounted, TypeOK
  <2> QED
    BY <2>1, <2>2
<1>9. CASE UNCHANGED vars
  BY <1>0, <1>9, ExactFrame DEF vars, Held, history
<1> QED
  BY <1>1, <1>2, <1>3, <1>4, <1>5, <1>6, <1>7, <1>8, <1>9 DEF Next

(* The inductive invariant of the feed holds in every reachable state. *)
THEOREM FeedInvAlways == Spec => []FeedInv
<1>1. Init /\ Accounted => FeedInv
  <2> SUFFICES ASSUME Init, Accounted, NEW s \in Sockets PROVE Exact(s)
    BY DEF FeedInv
  <2>1. Len(spread) = 0
    BY EmptySeq DEF Init
  <2> QED
    BY <2>1 DEF Init, Exact, Held
<1>2. FeedInv /\ Accounted' /\ [Next]_vars => FeedInv'
  BY ExactStep DEF FeedInv
<1> QED
  BY <1>1, <1>2, AccountedAlways, PTL DEF Spec

(* Whatever the phones do and however handlers interleave, a phone has and is
   being sent exactly its snapshot and the messages spread since it became
   ready. *)
THEOREM FeedAlwaysExact == Spec => []FeedExact
BY FeedInvAlways, FeedInvGivesExact, PTL

-----------------------------------------------------------------------------
(* The phase of every socket, read off the dictionaries. *)
PhaseTable ==
  \A s \in Sockets :
    /\ s \in connections => Phase(s) = "ready"
    /\ s \in pendingConnections => Phase(s) = "pending"
    /\ socketState[s] = "new" => Phase(s) = "new"
    /\ socketState[s] = "closed" => Phase(s) = "gone"

(* Which dictionary holds a socket decides the phase the feed sees it in. *)
LEMMA PhaseTableHolds == Accounted => PhaseTable
<1> SUFFICES ASSUME Accounted, NEW s \in Sockets
             PROVE  /\ s \in connections => Phase(s) = "ready"
                    /\ s \in pendingConnections => Phase(s) = "pending"
                    /\ socketState[s] = "new" => Phase(s) = "new"
                    /\ socketState[s] = "closed" => Phase(s) = "gone"
  BY DEF PhaseTable
<1>1. /\ s \in Held <=> socketState[s] = "open"
      /\ ~(s \in connections /\ s \in pendingConnections)
  BY DEF Accounted, SocketsAccounted
<1>2. CASE s \in connections
  BY <1>1, <1>2 DEF Phase, Held
<1>3. CASE s \in pendingConnections
  BY <1>1, <1>3 DEF Phase, Held
<1>4. CASE socketState[s] = "new"
  BY <1>1, <1>4 DEF Phase, Held
<1>5. CASE socketState[s] = "closed"
  BY <1>1, <1>5 DEF Phase, Held
<1> QED
  BY <1>2, <1>3, <1>4, <1>5

(* Handlers that leave the dictionaries and the sockets alone leave the phases
   alone. *)
LEMMA PhaseFrame ==
  ASSUME UNCHANGED <<connections, pendingConnections, socketState>>
  PROVE  [s \in Sockets |-> Phase(s)]' = [s \in Sockets |-> Phase(s)]
BY DEF Phase

(* A step of the manager is a step of the feed or leaves it as it is. *)
LEMMA FeedStep ==
  ASSUME FeedInv, PhaseTable, Accounted', PhaseTable', [Next]_vars
  PROVE  [Feed!Next]_(Feed!vars)
<1> USE DEF FeedInv
<1> DEFINE phase == [s \in Sockets |-> Phase(s)]
<1>0. \A s \in Sockets :
        /\ phase[s] = Phase(s) /\ phase'[s] = Phase(s)'
        /\ s \in Held <=> socketState[s] = "open"
        /\ s \in Held' <=> socketState'[s] = "open"
        /\ socketState[s] \in {"new", "open", "closed"}
        /\ socketState'[s] \in {"new", "open", "closed"}
  BY DEF Accounted, SocketsAccounted, TypeOK
<1>1. CASE StartListening
  BY <1>1, PhaseFrame DEF StartListening, history, Feed!vars
<1>2. ASSUME NEW S \in SUBSET Held, Drop(S),
             connections' = connections \ S,
             pendingConnections' = pendingConnections \ S,
             UNCHANGED history
      PROVE  Feed!Next
  <2>1. phase' = [s \in Sockets |-> IF s \in S THEN "gone" ELSE phase[s]]
    <3> SUFFICES ASSUME NEW s \in Sockets
                 PROVE  Phase(s)' = IF s \in S THEN "gone" ELSE Phase(s)
      BY <1>0
    <3>1. CASE s \in S
      <4>1. socketState'[s] = "closed"
        BY <1>2, <3>1 DEF Drop
      <4> QED
        BY <3>1, <4>1 DEF PhaseTable
    <3>2. CASE s \notin S
      <4>1. /\ socketState'[s] = socketState[s]
            /\ s \in connections' <=> s \in connections
            /\ s \in pendingConnections' <=> s \in pendingConnections
        BY <1>2, <3>2 DEF Drop, Accounted, TypeOK
      <4> QED
        BY <3>2, <4>1, <1>0 DEF PhaseTable, Held
    <3> QED
      BY <3>1, <3>2
  <2>2. S \subseteq {s \in Sockets : phase[s] \in {"pending", "ready"}}
    BY <1>0 DEF PhaseTable, Held, Accounted, TypeOK
  <2>3. Feed!Leave(S)
    BY <1>2, <2>1 DEF Feed!Leave, history
  <2> QED
    BY <2>2, <2>3 DEF Feed!Next, Feed!Live
<1>3. CASE StopListening
  BY <1>2, <1>3 DEF StopListening, Held
<1>4. ASSUME NEW m \in Messages, SpreadMessage(m) PROVE Feed!Next
  <2>1. Feed!Spread(m)
    BY <1>4, PhaseFrame DEF SpreadMessage, Emitted, Feed!Spread
  <2> QED
    BY <2>1 DEF Feed!Next
<1>5. ASSUME NEW s \in Sockets, NEW q \in Snapshots, NewConnection(s, q)
      PROVE  Feed!Next
  <2>1. phase[s] = "new"
    BY <1>0, <1>5 DEF NewConnection, PhaseTable
  <2>2. phase' = [phase EXCEPT ![s] = "pending"]
    <3> SUFFICES ASSUME NEW z \in Sockets
                 PROVE  Phase(z)' = IF z = s THEN "pending" ELSE Phase(z)
      BY <1>0
    <3>1. CASE z = s
      BY <1>5, <3>1 DEF NewConnection, PhaseTable
    <3>2. CASE z # s
      <4>1. /\ socketState'[z] = socketState[z]
            /\ z \in connections' <=> z \in connections
            /\ z \in pendingConnections' <=> z \in pendingConnections
        BY <1>5, <3>2 DEF NewConnection, Accounted, TypeOK
      <4> QED
        BY <3>2, <4>1, <1>0 DEF PhaseTable, Held
    <3> QED
      BY <3>1, <3>2
  <2> HIDE DEF phase
  <2>3. Feed!Connect(s, q)
    BY <1>5, <2>1, <2>2 DEF NewConnection, Feed!Connect, phase
  <2> QED
    BY <2>3 DEF Feed!Next
<1>6. ASSUME NEW s \in Sockets, NEW p \in PushIds, SetPushUUID(s, p)
      PROVE  UNCHANGED Feed!vars
  BY <1>6, PhaseFrame DEF SetPushUUID, history, Feed!vars
<1>7. ASSUME NEW s \in Sockets, NEW u \in DeviceIds, SetDeviceUUID(s, u)
      PROVE  [Feed!Next]_(Feed!vars)
  <2>1. CASE s \in connections
    <3>1. UNCHANGED <<connections, pendingConnections, socketState, joinedAt>>
      BY <1>7, <2>1 DEF SetDeviceUUID, Accounted, SocketsAccounted
    <3> QED
      BY <1>7, <3>1, PhaseFrame DEF SetDeviceUUID, Feed!vars
  <2>2. CASE s \notin connections
    <3>1. s \in pendingConnections
      BY <1>0, <1>7, <2>2 DEF SetDeviceUUID, Held
    <3>2. phase[s] = "pending"
      BY <1>0, <3>1 DEF PhaseTable
    <3>3. phase' = [phase EXCEPT ![s] = "ready"]
      <4> SUFFICES ASSUME NEW z \in Sockets
                   PROVE  Phase(z)' = IF z = s THEN "ready" ELSE Phase(z)
        BY <1>0
      <4>1. CASE z = s
        BY <1>7, <4>1 DEF SetDeviceUUID, PhaseTable
      <4>2. CASE z # s
        <5>1. /\ socketState'[z] = socketState[z]
              /\ z \in connections' <=> z \in connections
              /\ z \in pendingConnections' <=> z \in pendingConnections
          BY <1>7, <4>2 DEF SetDeviceUUID
        <5> QED
          BY <4>2, <5>1, <1>0 DEF PhaseTable, Held
      <4> QED
        BY <4>1, <4>2
    <3> HIDE DEF phase
    <3>4. Feed!Join(s)
      BY <1>7, <2>2, <3>2, <3>3 DEF SetDeviceUUID, Feed!Join, phase
    <3> QED
      BY <3>4 DEF Feed!Next
  <2> QED
    BY <2>1, <2>2
<1>8. ASSUME NEW s \in Sockets, ProcessDisconnection(s) PROVE Feed!Next
  <2>1. s \in Held
    BY <1>0, <1>8 DEF ProcessDisconnection, PendingAfter
  <2> QED
    BY <1>2, <1>8, <2>1 DEF ProcessDisconnection, PendingAfter
<1>9. ASSUME NEW s \in Sockets, Deliver(s) PROVE Feed!Next
  <2>1. /\ outbox[s] \in Seq(Messages) /\ outbox[s] # <<>>
        /\ received[s] \in Seq(Messages)
    BY <1>9 DEF Deliver, Accounted, TypeOK
  <2>2. s \in Held /\ received[s] \o outbox[s] = Feed!Stream(s)
    BY <2>1, StreamIsOwed DEF Exact
  <2>5. Len(received[s]) < Len(Feed!Stream(s))
        /\ Head(outbox[s]) = Feed!Stream(s)[Len(received[s]) + 1]
    BY <2>1, <2>2, NextOfConcat
  <2>6. s \in Feed!Live
    <3>1. Phase(s) \in {"pending", "ready"}
      BY <2>2 DEF PhaseTable, Held
    <3> QED
      BY <3>1 DEF Feed!Live
  <2>7. Feed!Receive(s)
    BY <1>9, <2>5, <2>6, PhaseFrame DEF Deliver, Feed!Receive
  <2> QED
    BY <2>7 DEF Feed!Next
<1>10. CASE UNCHANGED vars
  BY <1>10, PhaseFrame DEF vars, history, Feed!vars
<1> QED
  BY <1>1, <1>3, <1>4, <1>5, <1>6, <1>7, <1>8, <1>9, <1>10 DEF Next

(* For every set of phones and messages, the connections manager implements
   the feed: it starts as the feed starts, and each of its handlers is one
   step of the feed or none. *)
THEOREM ManagerImplementsFeed == Spec => ImplementsFeed
<1>1. Init => Feed!Init
  BY DEF Init, Feed!Init, Phase
<1>2. [](FeedInv /\ PhaseTable /\ Accounted) /\ [][Next]_vars
        => [][Feed!Next]_(Feed!vars)
  <2>1. FeedInv /\ PhaseTable /\ Accounted' /\ PhaseTable' /\ [Next]_vars
          => [Feed!Next]_(Feed!vars)
    BY FeedStep
  <2> QED
    BY <2>1, PTL
<1>3. FeedInv => Accounted
  BY DEF FeedInv
<1> QED
  BY <1>1, <1>2, <1>3, FeedInvAlways, PhaseTableHolds, PTL
     DEF Spec, ImplementsFeed, Feed!Spec
=============================================================================

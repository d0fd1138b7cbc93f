------------------------ MODULE CurrentStatuses_proofs ------------------------
(***************************************************************************)
(* Proofs about the status board, for every set of services, every kind of *)
(* report and every history length.                                        *)
(***************************************************************************)
EXTENDS CurrentStatuses, SequenceTheorems, TLAPS

(* What addHistoric returns is a history whatever the event. *)
LEMMA HistoricType ==
  ASSUME TypeOK, NEW e \in Event
  PROVE  Historic(e) \in Seq(Event)
<1>1. CASE Known(e.service)
  <2> DEFINE k == e.service
             h == statuses[k].historicData
  <2>1. k \in Services
    BY DEF Event
  <2>2. statuses[k] \in Status
    BY <1>1, <2>1 DEF TypeOK, Known
  <2>3. h \in Seq(Event)
    BY <2>2 DEF Status
  <2>4. Append(h, e) \in Seq(Event) /\ Append(h, e) # <<>>
    BY <2>3, AppendProperties
  <2>5. Tail(Append(h, e)) \in Seq(Event)
    BY <2>4, HeadTailProperties
  <2> QED
    BY <1>1, <2>4, <2>5 DEF Historic, Shifted
<1>2. CASE ~Known(e.service)
  BY <1>2, EmptySeq DEF Historic, FirstHistoric
<1> QED
  BY <1>1, <1>2

(* The event of a Process step is well formed. *)
LEMMA ProcessedEvent ==
  ASSUME TypeOK, NEW k \in Services, NEW r \in Reports
  PROVE  [service |-> k, timestamp |-> Len(log[k]) + 1, report |-> r] \in Event
<1>1. Len(log[k]) \in Nat
  BY LenProperties DEF TypeOK
<1> QED
  BY <1>1 DEF Event

(* Types are preserved: the board only ever holds statuses, the history
   variable only results. *)
THEOREM TypeCorrect == Spec => []TypeOK
<1>1. Init => TypeOK
  BY EmptySeq DEF Init, Empty, TypeOK
<1>2. TypeOK /\ [Next]_vars => TypeOK'
  <2> SUFFICES ASSUME TypeOK, [Next]_vars PROVE TypeOK'
    OBVIOUS
  <2>1. ASSUME NEW k \in Services, NEW r \in Reports, Process(k, r)
        PROVE  TypeOK'
    <3> DEFINE e == [service |-> k, timestamp |-> Len(log[k]) + 1, report |-> r]
    <3>1. e \in Event /\ e.service = k
      BY ProcessedEvent
    <3>2. [event |-> e, historicData |-> Historic(e)] \in Status
      BY <3>1, HistoricType DEF Status
    <3>3. Append(log[k], e) \in Seq(Event)
      BY <3>1, AppendProperties DEF TypeOK
    <3> HIDE DEF e
    <3> QED
      BY <2>1, <3>1, <3>2, <3>3 DEF Process, UpdateStatus, TypeOK, e
  <2>2. CASE UNCHANGED vars
    BY <2>2 DEF vars, TypeOK
  <2> QED
    BY <2>1, <2>2 DEF Next
<1> QED
  BY <1>1, <1>2, PTL DEF Spec

-----------------------------------------------------------------------------
(* What Latest returns. *)
LEMMA LatestProperties ==
  ASSUME NEW S, NEW s \in Seq(S), NEW n \in 0..Len(s)
  PROVE  /\ Latest(s, n) \in Seq(S)
         /\ Len(Latest(s, n)) = n
         /\ \A i \in 1..n : Latest(s, n)[i] = s[Len(s) - n + i]
<1>1. Len(s) \in Nat /\ n \in Nat
  BY LenProperties
<1>2. \A i \in 1..n : s[Len(s) - n + i] \in S
  BY <1>1, ElementOfSeq
<1>3. Latest(s, n) \in [1..n -> S]
  BY <1>2 DEF Latest
<1>4. Latest(s, n) \in Seq(S)
  BY <1>1, <1>3, SeqDef
<1>5. Len(Latest(s, n)) = n
  BY <1>1, <1>3, <1>4, LenProperties
<1> QED
  BY <1>4, <1>5 DEF Latest

(* Appending to a sequence appends to its latest elements. *)
LEMMA LatestOfAppend ==
  ASSUME NEW S, NEW s \in Seq(S), NEW e \in S, NEW n \in 0..Len(s)
  PROVE  Append(Latest(s, n), e) = Latest(Append(s, e), n + 1)
<1> DEFINE a == Append(Latest(s, n), e)
           b == Latest(Append(s, e), n + 1)
<1>1. Len(s) \in Nat /\ n \in Nat
  BY LenProperties
<1>2. /\ Append(s, e) \in Seq(S)
      /\ Len(Append(s, e)) = Len(s) + 1
      /\ \A i \in 1..Len(s) : Append(s, e)[i] = s[i]
      /\ Append(s, e)[Len(s) + 1] = e
  BY AppendProperties
<1>3. a \in Seq(S) /\ Len(a) = n + 1
  BY LatestProperties, AppendProperties
<1>4. b \in Seq(S) /\ Len(b) = n + 1
  <2>1. n + 1 \in 0..Len(Append(s, e))
    BY <1>1, <1>2
  <2> QED
    BY <1>2, <2>1, LatestProperties
<1> DEFINE l == Latest(s, n)
<1>l. /\ l \in Seq(S) /\ Len(l) = n
      /\ \A i \in 1..n : l[i] = s[Len(s) - n + i]
  BY LatestProperties
<1>a. a = Append(l, e)
  OBVIOUS
<1> HIDE DEF a, l
<1>5. \A i \in 1..n : a[i] = s[Len(s) - n + i]
  <2>1. \A i \in 1..Len(l) : a[i] = l[i]
    BY <1>a, <1>l, AppendProperties
  <2> QED
    BY <2>1, <1>l
<1>6. a[n + 1] = e
  BY <1>a, <1>l, AppendProperties
<1>7. \A i \in 1..(n + 1) : b[i] = Append(s, e)[Len(s) - n + i]
  BY <1>1, <1>2 DEF Latest
<1> HIDE DEF b
<1>8. ASSUME NEW i \in 1..(n + 1)
      PROVE  a[i] = b[i]
  <2>1. b[i] = Append(s, e)[Len(s) - n + i]
    BY <1>7
  <2>2. CASE i = n + 1
    <3>1. Len(s) - n + i = Len(s) + 1
      BY <1>1, <2>2
    <3> QED
      BY <1>2, <1>6, <2>1, <2>2, <3>1
  <2>3. CASE i \in 1..n
    <3>1. Len(s) - n + i \in 1..Len(s)
      BY <1>1, <2>3
    <3> QED
      BY <1>2, <1>5, <2>1, <2>3, <3>1
  <2> QED
    BY <1>1, <2>2, <2>3
<1>9. a = b
  BY <1>3, <1>4, <1>8, SeqEqual
<1> QED
  BY <1>9 DEF a, b

(* Dropping the oldest of the latest elements leaves the latest but one. *)
LEMMA LatestOfTail ==
  ASSUME NEW S, NEW s \in Seq(S), NEW n \in 1..Len(s)
  PROVE  Tail(Latest(s, n)) = Latest(s, n - 1)
<1> DEFINE l == Latest(s, n)
           t == Latest(s, n - 1)
<1>1. Len(s) \in Nat /\ n \in 1..Len(s) /\ n \in 0..Len(s) /\ n - 1 \in 0..Len(s)
  BY LenProperties
<1>2. /\ l \in Seq(S) /\ Len(l) = n
      /\ \A i \in 1..n : l[i] = s[Len(s) - n + i]
  BY <1>1, LatestProperties
<1>3. /\ t \in Seq(S) /\ Len(t) = n - 1
      /\ \A i \in 1..(n - 1) : t[i] = s[Len(s) - (n - 1) + i]
  BY <1>1, LatestProperties
<1> HIDE DEF l, t
<1>4. l # <<>>
  BY <1>1, <1>2
<1>5. /\ Tail(l) \in Seq(S) /\ Len(Tail(l)) = n - 1
      /\ \A i \in 1..(n - 1) : Tail(l)[i] = l[i + 1]
  BY <1>2, <1>4, HeadTailProperties
<1>6. ASSUME NEW i \in 1..(n - 1)
      PROVE  Tail(l)[i] = t[i]
  <2>1. i + 1 \in 1..n /\ Len(s) - n + (i + 1) = Len(s) - (n - 1) + i
    BY <1>1
  <2> QED
    BY <1>2, <1>3, <1>5, <2>1
<1>7. Tail(l) = t
  BY <1>3, <1>5, <1>6, SeqEqual
<1> QED
  BY <1>7 DEF l, t

(* Shifting a window that has just grown cuts it back to the cap. *)
LEMMA ShiftedWindow ==
  ASSUME NEW S, NEW s \in Seq(S), NEW e \in S, s # <<>>
  PROVE  Shifted(Append(Latest(s, AtMost(Len(s) - 1, MaxHistoricData)), e))
           = Latest(Append(s, e), AtMost(Len(s), MaxHistoricData))
<1> DEFINE m == AtMost(Len(s) - 1, MaxHistoricData)
           a == Append(s, e)
<1>1. Len(s) \in Nat /\ Len(s) >= 1
  BY LenProperties, EmptySeq
<1>2. m \in 0..Len(s) /\ m \in Nat /\ m <= MaxHistoricData
  BY <1>1, BoundsAssumption DEF AtMost
<1>3. a \in Seq(S) /\ Len(a) = Len(s) + 1
  BY AppendProperties
<1>4. Append(Latest(s, m), e) = Latest(a, m + 1)
  BY <1>2, LatestOfAppend
<1> HIDE DEF m, a
<1>5. Len(Latest(a, m + 1)) = m + 1 /\ m + 1 \in 1..Len(a)
  <2>1. m + 1 \in 1..Len(a) /\ m + 1 \in 0..Len(a)
    BY <1>1, <1>2, <1>3
  <2> QED
    BY <1>3, <2>1, LatestProperties
<1>6. CASE m + 1 <= MaxHistoricData
  <2>1. m + 1 = AtMost(Len(s), MaxHistoricData)
    BY <1>1, <1>6, BoundsAssumption DEF AtMost, m
  <2>2. Shifted(Latest(a, m + 1)) = Latest(a, m + 1)
    BY <1>2, <1>5, <1>6, BoundsAssumption DEF Shifted
  <2> QED
    BY <1>4, <2>1, <2>2 DEF m, a
<1>7. CASE m + 1 > MaxHistoricData
  <2>1. m = AtMost(Len(s), MaxHistoricData)
    BY <1>1, <1>2, <1>7, BoundsAssumption DEF AtMost, m
  <2>2. Shifted(Latest(a, m + 1)) = Tail(Latest(a, m + 1))
    BY <1>5, <1>7 DEF Shifted
  <2>3. Tail(Latest(a, m + 1)) = Latest(a, m)
    <3>1. Tail(Latest(a, m + 1)) = Latest(a, (m + 1) - 1)
      BY <1>3, <1>5, LatestOfTail
    <3> QED
      BY <1>2, <3>1
  <2> QED
    BY <1>4, <2>1, <2>2, <2>3 DEF m, a
<1> QED
  BY <1>2, <1>6, <1>7, BoundsAssumption

(* The board is at all times the digest HistoryIsWindow says: its entries
   are the newest results and their histories unbroken windows of what was
   processed, whatever the order in which services report. *)
THEOREM BoardIsDigest == Spec => []HistoryIsWindow
<1>1. Init => HistoryIsWindow
  BY DEF Init, Empty, HistoryIsWindow, Known
<1>2. TypeOK /\ TypeOK' /\ HistoryIsWindow /\ [Next]_vars => HistoryIsWindow'
  <2> SUFFICES ASSUME TypeOK, TypeOK', HistoryIsWindow, [Next]_vars
               PROVE  HistoryIsWindow'
    OBVIOUS
  <2>1. ASSUME NEW k \in Services, NEW r \in Reports, Process(k, r)
        PROVE  HistoryIsWindow'
    <3> DEFINE e == [service |-> k, timestamp |-> Len(log[k]) + 1, report |-> r]
               st == [event |-> e, historicData |-> Historic(e)]
    <3>1. e \in Event /\ e.service = k
      BY ProcessedEvent
    <3>2. st \in Status /\ st.event = e /\ st.historicData = Historic(e)
      BY <3>1, HistoricType DEF Status
    <3> HIDE DEF e, st
    <3>3. /\ statuses' = [statuses EXCEPT ![k] = st]
          /\ log' = [log EXCEPT ![k] = Append(log[k], e)]
      BY <2>1, <3>1 DEF Process, UpdateStatus, e, st
    <3>4. log[k] \in Seq(Event) /\ Len(log[k]) \in Nat
      BY LenProperties DEF TypeOK
    <3>5. /\ log'[k] = Append(log[k], e)
          /\ statuses'[k] = st /\ Known(k)'
      BY <3>2, <3>3, NoStatusAssumption DEF TypeOK, Known
    <3>6. /\ log'[k] # <<>> /\ Len(log'[k]) = Len(log[k]) + 1
          /\ log'[k][Len(log'[k])] = e
      BY <3>1, <3>4, <3>5, AppendProperties
    <3>7. st.historicData = Latest(log'[k], AtMost(Len(log[k]), MaxHistoricData))
      <4>1. CASE Known(k)
        <5>1. /\ log[k] # <<>>
              /\ statuses[k].historicData
                    = Latest(log[k], AtMost(Len(log[k]) - 1, MaxHistoricData))
          BY <4>1 DEF HistoryIsWindow
        <5>2. Historic(e) = Shifted(Append(statuses[k].historicData, e))
          BY <3>1, <4>1 DEF Historic
        <5> QED
          BY <3>1, <3>2, <3>4, <3>5, <5>1, <5>2, ShiftedWindow
      <4>2. CASE ~Known(k)
        <5>1. log[k] = <<>> /\ Len(log[k]) = 0
          BY <4>2 DEF HistoryIsWindow
        <5>2. st.historicData = <<>>
          BY <3>1, <3>2, <4>2 DEF Historic, FirstHistoric
        <5>3. AtMost(Len(log[k]), MaxHistoricData) = 0
          BY <5>1, BoundsAssumption DEF AtMost
        <5>4. log'[k] \in Seq(Event) /\ 0 \in 0..Len(log'[k])
          BY <3>1, <3>4, <3>5, <3>6, AppendProperties
        <5>5. Latest(log'[k], 0) = <<>>
          <6>1. Latest(log'[k], 0) \in Seq(Event) /\ Len(Latest(log'[k], 0)) = 0
            BY <5>4, LatestProperties
          <6> QED
            BY <6>1, EmptySeq
        <5> QED
          BY <5>2, <5>3, <5>5
      <4> QED
        BY <4>1, <4>2
    <3>8. ASSUME NEW j \in Services, j # k
          PROVE  /\ statuses'[j] = statuses[j] /\ log'[j] = log[j]
                 /\ Known(j)' <=> Known(j)
      BY <3>3, <3>8 DEF TypeOK, Known
    <3>9. Len(log'[k]) - 1 = Len(log[k])
      BY <3>4, <3>6
    <3> QED
      BY <3>2, <3>5, <3>6, <3>7, <3>8, <3>9 DEF HistoryIsWindow
  <2>2. CASE UNCHANGED vars
    BY <2>2 DEF vars, HistoryIsWindow, Known
  <2> QED
    BY <2>1, <2>2 DEF Next
<1> QED
  BY <1>1, <1>2, TypeCorrect, PTL DEF Spec
=============================================================================

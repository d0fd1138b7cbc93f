-------------------------- MODULE PushManager_proofs --------------------------
(***************************************************************************)
(* Proofs about the push table and its file, for every set of devices and  *)
(* ids and any number of overlapping writes and crashes.                   *)
(***************************************************************************)
EXTENDS PushManager, SequenceTheorems, TLAPS

(* The calls under way whose text is a table some process held. *)
PastWrites == [table : past, opened : BOOLEAN]

(* What is on the way to the file, in it and in memory was held once. *)
Remembered ==
  /\ NoDevices \in past
  /\ devices \in past
  /\ writes \in Seq(PastWrites)
  /\ FileIsPastTable

(* Two tables differ on one device at most. *)
OneApart(a, b) ==
  \/ b = a
  \/ \E u \in DeviceIds, p \in PushIds \cup {Null} : a = [b EXCEPT ![u] = p]

(* Without overlap there is at most one call under way; until it opens the
   file the file is at most one registration behind, from then on it is empty,
   and once the call is over the file is the table. *)
Orderly ==
  /\ ~up => writes = <<>>
  /\ up /\ ~overlapped =>
       \/ writes = <<>> /\ file \notin Unparsable /\ Recovered = devices
       \/ /\ Len(writes) = 1
          /\ writes[1] = [table |-> devices, opened |-> FALSE]
          /\ file \notin Unparsable
          /\ OneApart(devices, Recovered)
       \/ /\ Len(writes) = 1
          /\ writes[1] = [table |-> devices, opened |-> TRUE]
          /\ file = Truncated
  /\ ~up /\ ~overlapped =>
       file \in Unparsable \/ OneApart(devices, Recovered)

PushInv == TypeOK /\ Remembered /\ Orderly

-----------------------------------------------------------------------------
(* A sequence without one of its elements. *)
LEMMA DropOne ==
  ASSUME NEW W, NEW s \in Seq(W), NEW i \in 1..Len(s)
  PROVE  /\ SubSeq(s, 1, i - 1) \o SubSeq(s, i + 1, Len(s)) \in Seq(W)
         /\ Len(s) = 1 => SubSeq(s, 1, i - 1) \o SubSeq(s, i + 1, Len(s)) = <<>>
<1>1. Len(s) \in Nat /\ i \in Nat /\ 1 <= i /\ i <= Len(s)
  BY LenProperties
<1>2. \A j \in 1..Len(s) : s[j] \in W
  BY ElementOfSeq
<1>3. SubSeq(s, 1, i - 1) \in Seq(W)
  BY <1>1, <1>2, SubSeqProperties
<1>4. SubSeq(s, i + 1, Len(s)) \in Seq(W)
  BY <1>1, <1>2, SubSeqProperties
<1>5. ASSUME Len(s) = 1
      PROVE  SubSeq(s, 1, i - 1) = <<>> /\ SubSeq(s, i + 1, Len(s)) = <<>>
  BY <1>1, <1>5, SubSeqEmpty
<1>6. <<>> \in Seq(W) /\ <<>> \o <<>> = <<>>
  BY EmptySeq, ConcatEmptySeq
<1> QED
  BY <1>3, <1>4, <1>5, <1>6, ConcatProperties

(* A table with one entry replaced is a table. *)
LEMMA TableExcept ==
  ASSUME NEW d \in Tables, NEW u \in DeviceIds, NEW p \in PushIds
  PROVE  /\ [d EXCEPT ![u] = p] \in Tables
         /\ OneApart([d EXCEPT ![u] = p], d)
BY DEF Tables, OneApart

(* What recoverDevices() gives is a table, when the file parses. *)
LEMMA RecoveredTable ==
  ASSUME TypeOK, file \notin Unparsable
  PROVE  Recovered \in Tables
BY DEF TypeOK, Recovered, NoDevices, Tables

-----------------------------------------------------------------------------
(* The first process starts with the table the file gives. *)
LEMMA PushInvInit == Init => PushInv
<1> SUFFICES ASSUME Init PROVE PushInv
  OBVIOUS
<1>1. /\ <<>> \in Seq(Writes) /\ <<>> \in Seq(PastWrites)
      /\ NoDevices \in Tables
  BY EmptySeq DEF NoDevices, Tables
<1>2. TypeOK
  BY <1>1 DEF Init, TypeOK
<1>3. Remembered
  BY <1>1 DEF Init, Remembered, FileIsPastTable, Recovered
<1>4. Orderly
  BY DEF Init, Orderly, Recovered, OneApart
<1> QED
  BY <1>2, <1>3, <1>4 DEF PushInv

(* The constructor keeps the invariant: it takes a table out of the file. *)
LEMMA PushInvStart ==
  ASSUME PushInv, Start
  PROVE  PushInv'
<1>1. TypeOK'
  BY RecoveredTable DEF PushInv, TypeOK, Start, Parses
<1>2. Remembered'
  BY DEF PushInv, Remembered, Start, Parses, FileIsPastTable, Recovered, PastWrites
<1>3. Orderly'
  BY DEF PushInv, Orderly, Start, Parses, Recovered
<1> QED
  BY <1>1, <1>2, <1>3 DEF PushInv

(* addDevice() keeps the invariant, whether or not it persists the table. *)
LEMMA PushInvAddDevice ==
  ASSUME PushInv, NEW u \in DeviceIds \cup {Null}, NEW p \in PushIds \cup {Null},
         AddDevice(u, p)
  PROVE  PushInv'
<1>1. CASE u = Null \/ p = Null
  <2>1. UNCHANGED vars
    BY <1>1 DEF AddDevice, Stringified, vars
  <2> QED
    BY <2>1 DEF PushInv, TypeOK, Remembered, Orderly, FileIsPastTable, Recovered,
                PastWrites, vars
<1>2. CASE u # Null /\ p # Null
  <2> DEFINE d == [devices EXCEPT ![u] = p]
             w == [table |-> d, opened |-> FALSE]
  <2>1. /\ devices' = d /\ writes' = Append(writes, w)
        /\ past' = past \cup {d} /\ overlapped' = (overlapped \/ writes # <<>>)
        /\ UNCHANGED <<up, file, crashes>>
        /\ up
    BY <1>2 DEF AddDevice, Stringified
  <2>2. d \in Tables /\ OneApart(d, devices)
    BY <1>2, TableExcept DEF PushInv, TypeOK
  <2>3. w \in Writes /\ w \in PastWrites'
    BY <2>1, <2>2 DEF Writes, PastWrites
  <2>4. writes \in Seq(PastWrites')
    <3>1. PastWrites \subseteq PastWrites'
      BY <2>1 DEF PastWrites
    <3> QED
      BY <3>1, SeqMonotonic DEF PushInv, Remembered
  <2>5. Append(writes, w) \in Seq(Writes) /\ Append(writes, w) \in Seq(PastWrites')
    BY <2>3, <2>4, AppendProperties DEF PushInv, TypeOK
  <2>6. /\ writes = <<>> => /\ Len(Append(writes, w)) = 1
                            /\ Append(writes, w)[1] = w
    <3>1. Len(<<>>) = 0 /\ <<>> \in Seq(Writes)
      BY EmptySeq
    <3> QED
      BY <2>3, <3>1, AppendProperties
  <2> HIDE DEF d, w
  <2>7. TypeOK'
    BY <2>1, <2>2, <2>5 DEF PushInv, TypeOK
  <2>8. Remembered'
    BY <2>1, <2>5 DEF PushInv, Remembered, FileIsPastTable, Recovered
  <2>9. Orderly'
    <3> SUFFICES ASSUME ~overlapped, writes = <<>>
                 PROVE  /\ Len(writes') = 1
                        /\ writes'[1] = [table |-> devices', opened |-> FALSE]
                        /\ file' \notin Unparsable
                        /\ OneApart(devices', Recovered')
      BY <2>1 DEF Orderly
    <3>1. file \notin Unparsable /\ Recovered = devices
      BY <2>1, EmptySeq DEF PushInv, Orderly
    <3> QED
      BY <2>1, <2>2, <2>6, <3>1 DEF Recovered, w
  <2> QED
    BY <2>7, <2>8, <2>9 DEF PushInv
<1> QED
  BY <1>1, <1>2

(* Truncating the file keeps the invariant. *)
LEMMA PushInvOpenFile ==
  ASSUME PushInv, NEW i \in DOMAIN writes, OpenFile(i)
  PROVE  PushInv'
<1>0. /\ i \in 1..Len(writes) /\ writes[i] \in Writes /\ writes[i] \in PastWrites
      /\ Len(writes) \in Nat
  BY LenProperties, ElementOfSeq DEF PushInv, TypeOK, Remembered
<1> DEFINE w == [table |-> writes[i].table, opened |-> TRUE]
<1>1. w \in Writes /\ w \in PastWrites
  BY <1>0 DEF Writes, PastWrites
<1>2. writes' = [writes EXCEPT ![i] = w]
  BY DEF OpenFile
<1> HIDE DEF w
<1>3. writes' \in Seq(Writes) /\ writes' \in Seq(PastWrites)
      /\ Len(writes') = Len(writes)
      /\ writes'[i] = w
  BY <1>0, <1>1, <1>2, ExceptSeq DEF PushInv, TypeOK, Remembered, w
<1>4. TypeOK'
  BY <1>3 DEF PushInv, TypeOK, OpenFile, Unparsable
<1>5. Remembered'
  BY <1>3 DEF PushInv, Remembered, OpenFile, FileIsPastTable, Unparsable, PastWrites
<1>6. Orderly'
  <2>1. up /\ up' /\ writes # <<>>
    BY <1>0, EmptySeq DEF PushInv, Orderly, OpenFile
  <2>2. ASSUME ~overlapped'
        PROVE  Len(writes) = 1 /\ writes[i].table = devices
    <3>1. CASE overlapped
      BY <2>2, <3>1 DEF OpenFile
    <3>2. CASE ~overlapped
      <4>1. Len(writes) = 1 /\ writes[1].table = devices
        BY <2>1, <3>2 DEF PushInv, Orderly
      <4> QED
        BY <1>0, <4>1
    <3> QED
      BY <3>1, <3>2
  <2>3. ASSUME ~overlapped'
        PROVE  /\ Len(writes') = 1
               /\ writes'[1] = [table |-> devices', opened |-> TRUE]
               /\ file' = Truncated
    <3>1. i = 1
      BY <1>0, <2>2, <2>3
    <3> QED
      BY <1>1, <1>3, <2>2, <2>3, <3>1 DEF OpenFile, w
  <2> QED
    BY <2>1, <2>3 DEF Orderly
<1> QED
  BY <1>4, <1>5, <1>6 DEF PushInv

(* Writing the text keeps the invariant. *)
LEMMA PushInvWriteFile ==
  ASSUME PushInv, NEW i \in DOMAIN writes, WriteFile(i)
  PROVE  PushInv'
<1>0. /\ i \in 1..Len(writes) /\ writes[i] \in Writes /\ writes[i] \in PastWrites
      /\ Len(writes) \in Nat
  BY LenProperties, ElementOfSeq DEF PushInv, TypeOK, Remembered
<1>1. /\ Without(i) \in Seq(Writes) /\ Without(i) \in Seq(PastWrites)
      /\ Len(writes) = 1 => Without(i) = <<>>
  BY <1>0, DropOne DEF Without, PushInv, TypeOK, Remembered
<1>2. file' \in {writes[i].table, Garbled}
  BY DEF WriteFile, Overwritten
<1>3. writes[i].table \in Tables /\ writes[i].table \in past
  BY <1>0 DEF Writes, PastWrites
<1>4. TypeOK'
  BY <1>1, <1>2, <1>3 DEF PushInv, TypeOK, WriteFile, Unparsable
<1>5. Remembered'
  <2>1. FileIsPastTable'
    BY <1>2, <1>3, FileAssumption
       DEF FileIsPastTable, Recovered, Unparsable, WriteFile, PushInv, Remembered
  <2> QED
    BY <1>1, <2>1 DEF PushInv, Remembered, WriteFile, PastWrites
<1>6. Orderly'
  <2>1. up /\ up' /\ writes # <<>>
    BY <1>0, EmptySeq DEF PushInv, Orderly, WriteFile
  <2>2. ASSUME ~overlapped'
        PROVE  writes' = <<>> /\ file' \notin Unparsable /\ Recovered' = devices'
    <3>1. /\ Len(writes) = 1 /\ file = Truncated
          /\ writes[1] = [table |-> devices, opened |-> TRUE]
      BY <2>1, <2>2, <1>0 DEF PushInv, Orderly, WriteFile
    <3>2. file' = devices
      BY <1>0, <3>1 DEF WriteFile, Overwritten
    <3>3. devices \in Tables
      BY DEF PushInv, TypeOK
    <3> QED
      BY <1>1, <3>1, <3>2, <3>3, FileAssumption
         DEF WriteFile, Recovered, Unparsable
  <2> QED
    BY <2>1, <2>2 DEF Orderly
<1> QED
  BY <1>4, <1>5, <1>6 DEF PushInv

(* The end of the process keeps the invariant. *)
LEMMA PushInvCrash ==
  ASSUME PushInv, Crash
  PROVE  PushInv'
<1>0. <<>> \in Seq(Writes) /\ <<>> \in Seq(PastWrites)
  BY EmptySeq
<1>1. TypeOK'
  <2>1. crashes + 1 \in Nat
    BY DEF PushInv, TypeOK
  <2>2. writes' \in Seq(Writes) /\ up' \in BOOLEAN
    BY <1>0 DEF Crash
  <2> QED
    BY <2>1, <2>2 DEF PushInv, TypeOK, Crash
<1>2. Remembered'
  BY <1>0 DEF PushInv, Remembered, Crash, FileIsPastTable, Recovered, PastWrites
<1>3. Orderly'
  BY DEF PushInv, Orderly, Crash, Recovered, Unparsable, OneApart
<1> QED
  BY <1>1, <1>2, <1>3 DEF PushInv

(* The inductive invariant of the push table holds in every reachable state. *)
THEOREM PushInvAlways == Spec => []PushInv
<1>1. PushInv /\ [Next]_vars => PushInv'
  <2> SUFFICES ASSUME PushInv, [Next]_vars PROVE PushInv'
    OBVIOUS
  <2>1. CASE Start
    BY <2>1, PushInvStart
  <2>2. ASSUME NEW u \in DeviceIds \cup {Null}, NEW p \in PushIds \cup {Null},
               AddDevice(u, p)
        PROVE  PushInv'
    BY <2>2, PushInvAddDevice
  <2>3. CASE Persist
    BY <2>3, PushInvOpenFile, PushInvWriteFile DEF Persist
  <2>4. CASE Crash
    BY <2>4, PushInvCrash
  <2>5. CASE UNCHANGED vars
    BY <2>5 DEF PushInv, TypeOK, Remembered, Orderly, FileIsPastTable, Recovered,
                PastWrites, vars
  <2> QED
    BY <2>1, <2>2, <2>3, <2>4, <2>5 DEF Next
<1> QED
  BY <1>1, PushInvInit, PTL DEF Spec

-----------------------------------------------------------------------------
(* Whatever is added, written and recovered, in whatever order, the fields
   keep their types. *)
THEOREM TypeCorrect == Spec => []TypeOK
BY PushInvAlways, PTL DEF PushInv

(* However writes interleave and wherever the process crashes, a file that
   parses is a table some process really held. *)
THEOREM FileAlwaysPastTable == Spec => []FileIsPastTable
BY PushInvAlways, PTL DEF PushInv, Remembered

(* When the calls are over and none overlapped, the file is the table. *)
THEOREM AlwaysPersistedWhenIdle == Spec => []PersistedWhenIdle
<1>1. PushInv => PersistedWhenIdle
  BY EmptySeq DEF PushInv, Orderly, PersistedWhenIdle
<1> QED
  BY <1>1, PushInvAlways, PTL

(* While the process runs, the file fails to parse only in the middle of a
   write, or after calls overlapped. *)
THEOREM AlwaysUnparsableOnlyMidWrite == Spec => []UnparsableOnlyMidWrite
<1>1. PushInv => UnparsableOnlyMidWrite
  <2> SUFFICES ASSUME PushInv, up, file \in Unparsable, ~overlapped
               PROVE  \E i \in DOMAIN writes : writes[i].opened
    BY DEF UnparsableOnlyMidWrite
  <2>1. Len(writes) = 1 /\ writes[1] = [table |-> devices, opened |-> TRUE]
    BY DEF PushInv, Orderly
  <2>2. 1 \in DOMAIN writes
    BY <2>1, LenProperties DEF PushInv, TypeOK
  <2> QED
    BY <2>1, <2>2
<1> QED
  BY <1>1, PushInvAlways, PTL

(* A restart forgets at most one registration, unless calls overlapped. *)
THEOREM RestartAlwaysForgetsAtMostOne == Spec => RestartForgetsAtMostOne
<1>1. PushInv /\ [Next]_vars
        => [Start /\ ~overlapped
              => \/ devices' = devices
                 \/ \E u \in DeviceIds, p \in PushIds \cup {Null} :
                      devices = [devices' EXCEPT ![u] = p]]_vars
  <2> SUFFICES ASSUME PushInv, Start, ~overlapped
               PROVE  \/ devices' = devices
                      \/ \E u \in DeviceIds, p \in PushIds \cup {Null} :
                           devices = [devices' EXCEPT ![u] = p]
    OBVIOUS
  <2>1. devices' = Recovered /\ OneApart(devices, Recovered)
    BY DEF PushInv, Orderly, Start, Parses
  <2> QED
    BY <2>1 DEF OneApart
<1> QED
  BY <1>1, PushInvAlways, PTL DEF Spec, RestartForgetsAtMostOne
=============================================================================

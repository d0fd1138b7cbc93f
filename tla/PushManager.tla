----------------------------- MODULE PushManager -----------------------------
(***************************************************************************)
(* The push table of the middleware (classes/PushManager.js): the push     *)
(* registration id of every device that announced one, kept in memory and  *)
(* rewritten as a whole to a JSON file each time a device is added.  The   *)
(* constructor reads the file back when the process starts.                *)
(*                                                                         *)
(* fs.writeFile is asynchronous and nothing waits for it.  Each call opens *)
(* the file, which truncates it, and then writes at its beginning; the     *)
(* steps of several calls interleave in any order in the thread pool.  A   *)
(* shorter text over a longer one leaves the tail of the longer, and then  *)
(* the file is no JSON.  How long a text is is not modelled: a write over  *)
(* another text may come out either way.  An error in a write without a    *)
(* callback is rethrown and ends the process: a Crash at that point.       *)
(*                                                                         *)
(* past and overlapped are history variables; no guard reads them.         *)
(***************************************************************************)
EXTENDS Naturals, Sequences

CONSTANTS
  DeviceIds,   \* device uuids
  PushIds,     \* push registration ids
  Null,        \* JavaScript null
  Absent,      \* the file does not exist
  Truncated,   \* the file is empty
  Garbled,     \* the file holds a text that is no JSON
  MaxWrites,   \* bound: calls of writeFile under way at once
  MaxCrashes   \* bound: crashes in a behaviour

(* A table maps every device to its id, or to Null when it has no key. *)
Tables == [DeviceIds -> PushIds \cup {Null}]
NoDevices == [u \in DeviceIds |-> Null]
Unparsable == {Truncated, Garbled}

(* A call of writeFile: the text was made when it was issued. *)
Writes == [table : Tables, opened : BOOLEAN]

ASSUME NullAssumption == Null \notin PushIds
ASSUME FileAssumption ==
  /\ {Absent, Truncated, Garbled} \cap Tables = {}
  /\ Absent \notin Unparsable
ASSUME LimitsAssumption == MaxWrites \in Nat /\ MaxCrashes \in Nat

VARIABLES
  up,          \* the middleware process runs
  devices,     \* this.devices, meaningful while up
  file,        \* the content of devicesPersistenceFile
  writes,      \* the calls of writeFile under way, oldest first
  crashes,     \* number of crashes so far
  past,        \* history: every table the process ever held
  overlapped   \* history: in this process a call was issued while another was
               \* under way, and the newest has not opened the file alone since

vars == <<up, devices, file, writes, crashes, past, overlapped>>

-----------------------------------------------------------------------------
(* Mutated forms: the file is not tested for existence; what it holds is not
   assigned. *)
RecoveredUntested == file

RecoveredNever == NoDevices

(* What recoverDevices() makes of the file. *)
Recovered == IF file = Absent THEN NoDevices ELSE file

Init ==
  /\ up = FALSE
  /\ devices = NoDevices
  /\ file = Absent
  /\ writes = <<>>
  /\ crashes = 0
  /\ past = {NoDevices}
  /\ overlapped = FALSE

(* A mutated form: an empty file is let through. *)
ParsesEmpty == file # Garbled

Parses == file \notin Unparsable

(* The constructor: require() of an unparsable file throws and the process
   does not come up. *)
Start ==
  /\ ~up
  /\ Parses
  /\ up' = TRUE
  /\ devices' = Recovered
  /\ overlapped' = FALSE
  /\ UNCHANGED <<file, writes, crashes, past>>

(* Mutated forms of Stringified(u, p): the text is of the table before; it is of
   the device added alone. *)
StringifiedFirst(u, p) == devices

StringifiedAlone(u, p) == [NoDevices EXCEPT ![u] = p]

(* The table of which persistDevices() makes the text. *)
Stringified(u, p) == [devices EXCEPT ![u] = p]

(* addDevice() with both ids known: store, then persistDevices().  With one of
   them null it returns at once. *)
AddDevice(u, p) ==
  /\ up
  /\ IF u = Null \/ p = Null
     THEN UNCHANGED <<devices, writes, past, overlapped>>
     ELSE /\ Len(writes) < MaxWrites
          /\ devices' = [devices EXCEPT ![u] = p]
          /\ writes' = Append(writes, [table |-> Stringified(u, p), opened |-> FALSE])
          /\ past' = past \cup {devices'}
          /\ overlapped' = (overlapped \/ writes # <<>>)
  /\ UNCHANGED <<up, file, crashes>>

(* The calls still under way once call i is over. *)
Without(i) == SubSeq(writes, 1, i - 1) \o SubSeq(writes, i + 1, Len(writes))

(* A call opens the file with flag 'w'. *)
OpenFile(i) ==
  /\ ~writes[i].opened
  /\ writes' = [writes EXCEPT ![i] = [table |-> @.table, opened |-> TRUE]]
  /\ file' = Truncated
  /\ overlapped' = (overlapped /\ ~(Len(writes) = 1 /\ writes[i].table = devices))
  /\ UNCHANGED <<up, devices, crashes, past>>

(* The file after a text is written over what the file holds. *)
Overwritten(table) ==
  IF file \in {Truncated, table} THEN {table} ELSE {table, Garbled}

(* A call writes its text and is over. *)
WriteFile(i) ==
  /\ writes[i].opened
  /\ file' \in Overwritten(writes[i].table)
  /\ writes' = Without(i)
  /\ UNCHANGED <<up, devices, crashes, past, overlapped>>

(* The process ends; the calls under way end with it. *)
Crash ==
  /\ up
  /\ crashes < MaxCrashes
  /\ up' = FALSE
  /\ writes' = <<>>
  /\ crashes' = crashes + 1
  /\ UNCHANGED <<devices, file, past, overlapped>>

Persist == \E i \in DOMAIN writes : OpenFile(i) \/ WriteFile(i)

Next ==
  \/ Start
  \/ \E u \in DeviceIds \cup {Null}, p \in PushIds \cup {Null} : AddDevice(u, p)
  \/ Persist
  \/ Crash

Spec == Init /\ [][Next]_vars

-----------------------------------------------------------------------------
(* Each field has the kind of value the code stores in it. *)
TypeOK ==
  /\ up \in BOOLEAN
  /\ devices \in Tables
  /\ file \in Tables \cup {Absent} \cup Unparsable
  /\ writes \in Seq(Writes)
  /\ crashes \in Nat
  /\ past \subseteq Tables
  /\ overlapped \in BOOLEAN

(* A restart never invents registrations: however the calls of writeFile
   interleave and wherever the process crashes, a file that parses holds a
   table some process really had. *)
FileIsPastTable ==
  file \notin Unparsable => Recovered \in past

(* Once the calls are over, the file is the table, unless two of them
   overlapped: a registration that was alone cannot be lost by a crash that
   comes after its write. *)
PersistedWhenIdle ==
  up /\ writes = <<>> /\ ~overlapped => Recovered = devices

(* A restart forgets at most one registration, the last one made, unless
   calls overlapped: recoverDevices() gives back the table of the process
   that ended but for one device. *)
RestartForgetsAtMostOne ==
  [][Start /\ ~overlapped
       => \/ devices' = devices
          \/ \E u \in DeviceIds, p \in PushIds \cup {Null} :
               devices = [devices' EXCEPT ![u] = p]]_vars

(* A file that does not parse is one a call is working on, or was when the
   process ended, or what overlapping calls left: a single registration at a
   time can leave it only to a crash. *)
UnparsableOnlyMidWrite ==
  up /\ file \in Unparsable
    => overlapped \/ \E i \in DOMAIN writes : writes[i].opened
=============================================================================

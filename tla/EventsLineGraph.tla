---------------------------- MODULE EventsLineGraph ----------------------------
(***************************************************************************)
(* What the main page shows of the stream of messages: the bars of the last*)
(* seconds (client classes/graphs/EventsLineGraph.js) and the number of    *)
(* messages per state (classes/visual/UpperCounters.js).  refresh() is     *)
(* called every second, between handlers.  The page renders the graph      *)
(* before the first message can arrive.                                    *)
(*                                                                         *)
(* seconds is a history variable: how many messages had come at the end of *)
(* each second.                                                            *)
(***************************************************************************)
EXTENDS Integers, Sequences, SequencesExt, FiniteSets

CONSTANTS
  States,      \* the four states
  MaxEntries,  \* columns of the graph, 60 in the code
  MaxSeconds   \* bound: seconds

VARIABLES
  eventsDelta,         \* messages of this second, per state
  historicDataArrays,  \* the columns, oldest first, per state
  plot,                \* there was a message this second, or none ever
  counts,              \* the texts of the four counters, as numbers
  seconds

vars == <<eventsDelta, historicDataArrays, plot, counts, seconds>>

None == [c \in States |-> 0]

(* The constructors and render(). *)
Init ==
  /\ eventsDelta = None
  /\ historicDataArrays = [c \in States |-> [i \in 1..MaxEntries |-> 0]]
  /\ plot = TRUE
  /\ counts = None
  /\ seconds = <<>>

(* newEvent() and up(). *)
NewEvent(code) ==
  /\ plot' = TRUE
  /\ eventsDelta' = [eventsDelta EXCEPT ![code] = @ + 1]
  /\ counts' = [counts EXCEPT ![code] = @ + 1]
  /\ UNCHANGED <<historicDataArrays, seconds>>

(* A mutated form: the counts of a second stay for the next. *)
DeltaKept == eventsDelta

DeltaAfterRefresh == None

(* refresh(): a second without a message repeats the last column. *)
Refresh(messages) ==
  /\ Len(seconds) < MaxSeconds
  /\ historicDataArrays' = [c \in States |->
       Append(Tail(historicDataArrays[c]),
              IF plot THEN eventsDelta[c] ELSE Last(historicDataArrays[c]))]
  /\ eventsDelta' = DeltaAfterRefresh
  /\ plot' = FALSE
  /\ seconds' = Append(seconds, messages)
  /\ UNCHANGED counts

-----------------------------------------------------------------------------
TypeOK ==
  /\ eventsDelta \in [States -> Nat]
  /\ historicDataArrays \in [States -> Seq(Nat)]
  /\ \A c \in States : Len(historicDataArrays[c]) = MaxEntries
  /\ plot \in BOOLEAN
  /\ counts \in [States -> Nat]
  /\ seconds \in Seq(Nat)

(* The codes of the messages of one second of the log. *)
Second(log, n) == SubSeq(log, (IF n = 1 THEN 0 ELSE seconds[n - 1]) + 1, seconds[n])

(* What column n after the start ought to be: the messages of that second, or
   of the last second that had any, or nothing. *)
Column(log, n, c) ==
  LET busy == {m \in 1..n : Second(log, m) # <<>>}
  IN  IF busy = {} THEN 0
      ELSE Cardinality({i \in DOMAIN Second(log, Max(busy)) :
                          Second(log, Max(busy))[i] = c})

Shows(log) ==
  \A c \in States :
    /\ counts[c] = Cardinality({i \in DOMAIN log : log[i] = c})
    /\ \A i \in 1..MaxEntries :
         LET n == Len(seconds) - MaxEntries + i
         IN  historicDataArrays[c][i] = IF n < 1 THEN 0 ELSE Column(log, n, c)
=============================================================================

------------------------------- MODULE EventFeed -------------------------------
(***************************************************************************)
(* What the middleware promises to a phone that connects to it, without    *)
(* the dictionaries, the Connection objects and the socket buffers of the  *)
(* code.  There is one log of messages spread.  A session first gets the   *)
(* snapshot taken when it connected, then, from the moment it is ready,    *)
(* every message spread, in order, once each, until it leaves.  Messages   *)
(* spread between connecting and becoming ready are no part of the promise.*)
(***************************************************************************)
EXTENDS Naturals, Sequences

CONSTANTS Sockets, Messages, Snapshots, MaxSpread

VARIABLES
  spread,    \* every message spread so far
  phase,     \* of each session: "new", "pending", "ready" or "gone"
  snapshot,  \* what the session was given on connecting
  joinedAt,  \* the length of the log when the session became ready
  received   \* what has reached the phone

vars == <<spread, phase, snapshot, joinedAt, received>>

Live == {s \in Sockets : phase[s] \in {"pending", "ready"}}

(* The messages a session is entitled to at this moment. *)
Stream(s) ==
  IF phase[s] = "ready"
  THEN snapshot[s] \o SubSeq(spread, joinedAt[s] + 1, Len(spread))
  ELSE snapshot[s]

Init ==
  /\ spread = <<>>
  /\ phase = [s \in Sockets |-> "new"]
  /\ snapshot = [s \in Sockets |-> <<>>]
  /\ joinedAt = [s \in Sockets |-> 0]
  /\ received = [s \in Sockets |-> <<>>]

Connect(s, q) ==
  /\ phase[s] = "new"
  /\ phase' = [phase EXCEPT ![s] = "pending"]
  /\ snapshot' = [snapshot EXCEPT ![s] = q]
  /\ UNCHANGED <<spread, joinedAt, received>>

Join(s) ==
  /\ phase[s] = "pending"
  /\ phase' = [phase EXCEPT ![s] = "ready"]
  /\ joinedAt' = [joinedAt EXCEPT ![s] = Len(spread)]
  /\ UNCHANGED <<spread, snapshot, received>>

Spread(m) ==
  /\ Len(spread) < MaxSpread
  /\ spread' = Append(spread, m)
  /\ UNCHANGED <<phase, snapshot, joinedAt, received>>

Receive(s) ==
  /\ s \in Live
  /\ Len(received[s]) < Len(Stream(s))
  /\ received' = [received EXCEPT ![s] = Append(@, Stream(s)[Len(@) + 1])]
  /\ UNCHANGED <<spread, phase, snapshot, joinedAt>>

Leave(S) ==
  /\ phase' = [s \in Sockets |-> IF s \in S THEN "gone" ELSE phase[s]]
  /\ UNCHANGED <<spread, snapshot, joinedAt, received>>

Next ==
  \/ \E s \in Sockets, q \in Snapshots : Connect(s, q)
  \/ \E s \in Sockets : Join(s) \/ Receive(s)
  \/ \E m \in Messages : Spread(m)
  \/ \E S \in SUBSET Live : Leave(S)

Spec == Init /\ [][Next]_vars

-----------------------------------------------------------------------------
(* Liveness the implementation owes: a message spread while a session is
   ready reaches the phone, unless the session ends. *)
EveryMessageArrives ==
  \A s \in Sockets, n \in 1..MaxSpread :
    (phase[s] = "ready" /\ joinedAt[s] < n /\ n <= Len(spread))
      ~> \/ phase[s] = "gone"
         \/ Len(received[s]) >= Len(snapshot[s]) + n - joinedAt[s]
=============================================================================

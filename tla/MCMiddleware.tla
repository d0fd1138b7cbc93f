----------------------------- MODULE MCMiddleware -----------------------------
(* Instances of Middleware: reports a service can go through, and the sizes in
   the cfg files. *)
EXTENDS Middleware

Report(st, type, downtime, ack) ==
  [state |-> st, state_type |-> type, scheduled_downtime_depth |-> downtime,
   problem_has_been_acknowledged |-> ack]

(* Recovery, the soft and the hard phase of a problem, and the two ways a
   problem is muted. *)
AllReports ==
  {Report(0, 1, 0, 0), Report(2, 0, 0, 0), Report(2, 1, 0, 0),
   Report(2, 1, 1, 0), Report(2, 1, 0, 1)}

TwoReports == {Report(0, 1, 0, 0), Report(2, 1, 0, 0)}
=============================================================================
